---------------------------- MODULE Spec2Model ----------------------------
(***************************************************************************)
(* A model of the migration composer (MigrationConstraint.solve and the    *)
(* solutions it returns), of the goerli/usdc deploy script with its        *)
(* guarded (idempotent) actions, of the configuration codec                *)
(* (packAssetConfig) and of the ScalingPriceFeed contract.                 *)
(***************************************************************************)
EXTENDS Integers, Sequences, FiniteSets, TLC

VARIABLES
    \* ---- migration composer (src/unnamed/part_001) ----
    catalog,      \* what getMigrations returns: the migrations, in discovery order
    faults,       \* per migration: which of its actions throws ("ok" when none)
    heap,         \* the arrays the generator created: array reference -> contents
    solutions,    \* solve's result: per solution the array its closure captured
    runs,         \* the applications of solutions started so far
    \* ---- goerli/usdc deploy (src/deployments/goerli/usdc/deploy.ts) ----
    chain,        \* the target: the state of the deployed contracts
    dpc,          \* where the current run of deploy stands
    dlog,         \* what the current run did so far, oldest first
    dhist,        \* the runs of deploy that ended before the current one
    \* ---- configuration codec (src/unnamed/part_000) ----
    config,       \* the asset address and asset configuration to pack
    packed,       \* what packAssetConfig returned or threw
    networkConfiguration,  \* the network's configuration.json
    configuration,         \* what getConfiguration returned or threw
    \* ---- ScalingPriceFeed (src/contracts/ScalingPriceFeed.sol) ----
    feed,         \* the constructed price feed, or the constructor's revert
    rounds,       \* the rounds of the underlying price feed, oldest first
    reading       \* what the last call of the price feed returned

composerVars == <<catalog, faults, heap, solutions, runs>>
deployVars == <<chain, dpc, dlog, dhist>>
codecVars == <<config, packed, networkConfiguration, configuration>>
feedVars == <<feed, rounds, reading>>
contractVars == feedVars
vars == <<catalog, faults, heap, solutions, runs, chain, dpc, dlog, dhist,
          config, packed, networkConfiguration, configuration,
          feed, rounds, reading>>

(***************************************************************************)
(* Bounds of the model.                                                    *)
(***************************************************************************)
MaxUnits == 2      \* migrations in a catalog
MaxApplies == 2    \* applications of solutions in flight or finished
MaxDeploys == 3    \* runs of the deploy script against one target

\* A migration is identified by its name; names are numbered by their place
\* in the collation order localeCompare uses.
Units == 1..MaxUnits

Elems(s) == {s[i] : i \in 1..Len(s)}

\* Sequences over S without repetition, of every length.
Arrangements(S) ==
    UNION {{s \in [1..n -> S] : \A i, j \in 1..n : i # j => s[i] # s[j]}
           : n \in 0..Cardinality(S)}

(***************************************************************************)
(* function* subsets(array, offset = 0)                                    *)
(* Arrays are objects: `mem` holds the arrays created so far, an array     *)
(* reference is its index in mem, and a generator yields references.  The  *)
(* result is mem once the generator is exhausted and the references it     *)
(* yielded, in the order it yielded them.  Each pass of the while loop     *)
(* takes first = array[offset++], pushes it on every array the recursive   *)
(* generator yields and yields that same array on; the passes after the    *)
(* first and the last line do what subsets(array, offset + 1) does; the    *)
(* last line yields a new empty array.                                     *)
(***************************************************************************)
\* yield [] with one array object used for every empty array.
SameEmptyArray(mem) ==
    [mem |-> IF mem = << >> THEN << << >> >> ELSE mem, ref |-> 1]

\* The array literal [] of `yield []`: a new array object.
NewArray(mem) == [mem |-> Append(mem, << >>), ref |-> Len(mem) + 1]

\* subset.push(first) for every subset of refs, in turn.
RECURSIVE PushEach(_, _, _)
PushEach(mem, refs, first) ==
    IF refs = << >> THEN mem
    ELSE PushEach([mem EXCEPT ![refs[1]] = Append(@, first)],
                  SubSeq(refs, 2, Len(refs)), first)

RECURSIVE subsets(_, _, _)
\* The generator with "if" in place of "while": only the first element is taken.
subsetsIfNotWhile(array, offset, mem) ==
    IF offset < Len(array)
    THEN LET first == array[offset + 1]
             inner == subsets(array, offset + 1, mem)
             empty == NewArray(PushEach(inner.mem, inner.yielded, first))
         IN  [mem |-> empty.mem, yielded |-> Append(inner.yielded, empty.ref)]
    ELSE LET empty == NewArray(mem)
         IN  [mem |-> empty.mem, yielded |-> <<empty.ref>>]

subsets(array, offset, mem) ==
    IF offset < Len(array)
    THEN LET first == array[offset + 1]
             inner == subsets(array, offset + 1, mem)
             rest == subsets(array, offset + 1,
                             PushEach(inner.mem, inner.yielded, first))
         IN  [mem |-> rest.mem, yielded |-> inner.yielded \o rest.yielded]
    ELSE LET empty == NewArray(mem)
         IN  [mem |-> empty.mem, yielded |-> <<empty.ref>>]

(***************************************************************************)
(* a.name.localeCompare(b.name), and Array.prototype.sort with it (a       *)
(* stable sort: an element moves in front of another only when the         *)
(* comparator says it is smaller).                                         *)
(***************************************************************************)
localeCompareReversed(a, b) == IF a < b THEN 1 ELSE IF a > b THEN -1 ELSE 0

localeCompare(a, b) == IF a < b THEN -1 ELSE IF a > b THEN 1 ELSE 0

RECURSIVE insertSorted(_, _)
insertSorted(sorted, m) ==
    IF sorted = << >> THEN <<m>>
    ELSE IF localeCompare(m, sorted[Len(sorted)]) < 0
         THEN Append(insertSorted(SubSeq(sorted, 1, Len(sorted) - 1), m),
                     sorted[Len(sorted)])
         ELSE Append(sorted, m)

RECURSIVE sort(_)
sort(list) ==
    IF list = << >> THEN << >>
    ELSE insertSorted(sort(SubSeq(list, 1, Len(list) - 1)), list[Len(list)])

(***************************************************************************)
(* The state of one application of a solution (one call of the async       *)
(* closure solve pushed): the solution, where the closure stands, the      *)
(* index the for-of loop is at, the calls it made on migrations, its       *)
(* context (the migrations enacted on ctx.deploymentManager) and, once     *)
(* the promise is rejected, what it was rejected with.                     *)
(***************************************************************************)
NoRejection == [error |-> "none", migration |-> {}, subset |-> {}]

NewRun(s) ==
    [sol |-> s, pc |-> "getGovernor", i |-> 0, calls |-> << >>,
     ctx |-> << >>, rejection |-> NoRejection]

\* The artifact migration m's prepare returns in application r.
ArtifactOf(r, m) == <<r, m>>

Call(op, m, artifact) ==
    [op |-> op, unit |-> m, artifact |-> artifact, outcome |-> "pending"]

Settle(calls, outcome) ==
    [calls EXCEPT ![Len(calls)].outcome = outcome]

\* The array solution s captured, as it is now.
migrationList(s) == heap[solutions[s]]

ComposerInit ==
    /\ catalog \in Arrangements(Units)
    /\ faults \in [Elems(catalog) -> {"ok", "prepare", "enact"}]
    /\ heap = << >>
    /\ solutions = << >>
    /\ runs = << >>

ComposerIdle ==
    /\ catalog = << >>
    /\ faults = << >>
    /\ heap = << >>
    /\ solutions = << >>
    /\ runs = << >>

(***************************************************************************)
(* MigrationConstraint.solve: one solution per array the generator yields; *)
(* the closure pushed for it captures the reference yielded (the loop's    *)
(* let-bound migrationList).  solve calls no migration.                    *)
(***************************************************************************)
\* A solve that starts every solution as it pushes it.
SolveAndApply ==
    /\ solutions = << >>
    /\ runs = << >>
    /\ LET generated == subsets(catalog, 0, heap)
       IN  /\ heap' = generated.mem
           /\ solutions' = generated.yielded
           /\ runs' = [k \in 1..Len(generated.yielded) |-> NewRun(k)]
    /\ UNCHANGED <<catalog, faults, deployVars, codecVars, contractVars>>

Solve ==
    /\ solutions = << >>
    /\ runs = << >>
    /\ LET generated == subsets(catalog, 0, heap)
       IN  /\ heap' = generated.mem
           /\ solutions' = generated.yielded
    /\ UNCHANGED <<catalog, faults, runs, deployVars, codecVars, contractVars>>

Solved == solutions # << >>

\* A caller applies solution s to a context of its own: the closure calls
\* ctx.getGovernor() and is suspended at its first await.  Applications are independent until they act, so
\* only one order of starting them is kept: by solution.
Apply(s) ==
    /\ Solved
    /\ Len(runs) < MaxApplies
    /\ runs # << >> => runs[Len(runs)].sol <= s
    /\ runs' = Append(runs, NewRun(s))
    /\ UNCHANGED <<catalog, faults, heap, solutions, deployVars, codecVars, contractVars>>

\* The for-of loop's next step over the captured array as it is now: prepare of the next migration is called, or ctx is returned.
LoopNext(run, list) ==
    IF run.i < Len(list)
    THEN [run EXCEPT !.pc = "prepare",
                     !.i = run.i + 1,
                     !.calls = Append(run.calls,
                                      Call("prepare", list[run.i + 1], << >>))]
    ELSE [run EXCEPT !.pc = "returned"]

\* What the closure's promise is rejected with when a call on the context
\* throws error: no migration was called, the error passes unchanged.
ContextThrows(run, error) ==
    [run EXCEPT !.pc = "rejected",
                !.rejection = [error |-> error, migration |-> {},
                               subset |-> {}]]

\* const governor = await ctx.getGovernor() returns: ctx.getProposer() is
\* called and awaited; nothing is sorted yet.
GetGovernorReturns(r) ==
    /\ runs[r].pc = "getGovernor"
    /\ runs' = [runs EXCEPT ![r].pc = "getProposer"]
    /\ UNCHANGED <<catalog, faults, heap, solutions, deployVars, codecVars, contractVars>>

\* await ctx.getGovernor() throws: the closure is rejected before the sort.
GetGovernorThrows(r) ==
    /\ runs[r].pc = "getGovernor"
    /\ runs' = [runs EXCEPT ![r] = ContextThrows(runs[r], "GetGovernorError")]
    /\ UNCHANGED <<catalog, faults, heap, solutions, deployVars, codecVars, contractVars>>

\* const proposer = await ctx.getProposer() returns: the in-place sort of
\* the captured array, then the loop's first step.
GetProposerReturns(r) ==
    /\ runs[r].pc = "getProposer"
    /\ LET ref == solutions[runs[r].sol]
           sorted == sort(heap[ref])
       IN  /\ heap' = [heap EXCEPT ![ref] = sorted]
           /\ runs' = [runs EXCEPT ![r] = LoopNext(runs[r], sorted)]
    /\ UNCHANGED <<catalog, faults, solutions, deployVars, codecVars, contractVars>>

\* await ctx.getProposer() throws: the closure is rejected before the sort.
GetProposerThrows(r) ==
    /\ runs[r].pc = "getProposer"
    /\ runs' = [runs EXCEPT ![r] = ContextThrows(runs[r], "GetProposerError")]
    /\ UNCHANGED <<catalog, faults, heap, solutions, deployVars, codecVars, contractVars>>

\* The loop's artifact taken from the first prepare of the application
\* instead of the one that just returned.
PreparedArtifactOfFirst(calls) == calls[1].artifact

\* const artifact = await migration.actions.prepare(...): what the call that
\* just returned gave back.
PreparedArtifact(calls) == calls[Len(calls)].artifact

\* await migration.actions.prepare(...) returns the artifact; enact is called
\* with it.
PrepareReturns(r) ==
    /\ runs[r].pc = "prepare"
    /\ LET run == runs[r]
           m == run.calls[Len(run.calls)].unit
           returned == [Settle(run.calls, "ok") EXCEPT
                           ![Len(run.calls)].artifact = ArtifactOf(r, m)]
       IN  /\ faults[m] # "prepare"
           /\ runs' = [runs EXCEPT ![r] =
                 [run EXCEPT !.pc = "enact",
                             !.calls = Append(returned,
                                 Call("enact", m, PreparedArtifact(returned)))]]
    /\ UNCHANGED <<catalog, faults, heap, solutions, deployVars, codecVars, contractVars>>

\* What the closure's promise is rejected with when migration m's action
\* throws error: the closure has no try/catch, the error passes unchanged.
Rejection(error, m, list) == [error |-> error, migration |-> {}, subset |-> {}]

\* The loop with the throwing call caught and the loop going on.
ThrowCaughtAndContinued(run, error) ==
    LoopNext([run EXCEPT !.calls = Settle(run.calls, "threw")],
             migrationList(run.sol))

Throw(run, error) ==
    LET m == run.calls[Len(run.calls)].unit
    IN  [run EXCEPT !.pc = "rejected",
                    !.calls = Settle(run.calls, "threw"),
                    !.rejection = Rejection(error, m, migrationList(run.sol))]

\* await migration.actions.prepare(...) throws.
PrepareThrows(r) ==
    /\ runs[r].pc = "prepare"
    /\ faults[runs[r].calls[Len(runs[r].calls)].unit] = "prepare"
    /\ runs' = [runs EXCEPT ![r] = Throw(runs[r], "PrepareError")]
    /\ UNCHANGED <<catalog, faults, heap, solutions, deployVars, codecVars, contractVars>>

\* await migration.actions.enact(...) returns: the migration is on the
\* context; the loop goes on.
EnactReturns(r) ==
    /\ runs[r].pc = "enact"
    /\ LET run == runs[r]
           m == run.calls[Len(run.calls)].unit
       IN  /\ faults[m] # "enact"
           /\ runs' = [runs EXCEPT ![r] =
                 LoopNext([run EXCEPT !.calls = Settle(run.calls, "ok"),
                                      !.ctx = Append(run.ctx, m)],
                          migrationList(run.sol))]
    /\ UNCHANGED <<catalog, faults, heap, solutions, deployVars, codecVars, contractVars>>

\* A throwing enact that ends every application in flight, not only its own.
EnactThrowsForAll(r) ==
    /\ runs[r].pc = "enact"
    /\ faults[runs[r].calls[Len(runs[r].calls)].unit] = "enact"
    /\ runs' = [q \in 1..Len(runs) |->
                  IF q = r THEN Throw(runs[r], "EnactError")
                  ELSE IF runs[q].pc = "returned" THEN runs[q]
                  ELSE [runs[q] EXCEPT !.pc = "rejected"]]
    /\ UNCHANGED <<catalog, faults, heap, solutions, deployVars, codecVars, contractVars>>

\* await migration.actions.enact(...) throws.
EnactThrows(r) ==
    /\ runs[r].pc = "enact"
    /\ faults[runs[r].calls[Len(runs[r].calls)].unit] = "enact"
    /\ runs' = [runs EXCEPT ![r] = Throw(runs[r], "EnactError")]
    /\ UNCHANGED <<catalog, faults, heap, solutions, deployVars, codecVars, contractVars>>

ComposerNext ==
    \/ Solve
    \/ \E s \in 1..Len(solutions) : Apply(s)
    \/ \E r \in 1..Len(runs) : GetGovernorReturns(r)
    \/ \E r \in 1..Len(runs) : GetGovernorThrows(r)
    \/ \E r \in 1..Len(runs) : GetProposerReturns(r)
    \/ \E r \in 1..Len(runs) : GetProposerThrows(r)
    \/ \E r \in 1..Len(runs) : PrepareReturns(r)
    \/ \E r \in 1..Len(runs) : PrepareThrows(r)
    \/ \E r \in 1..Len(runs) : EnactReturns(r)
    \/ \E r \in 1..Len(runs) : EnactThrows(r)

DeployIdle ==
    /\ chain = << >>
    /\ dpc = << >>
    /\ dlog = << >>
    /\ dhist = << >>

(***************************************************************************)
(* The goerli/usdc deploy script.                                          *)
(*                                                                         *)
(* The target (chain) holds what the script's guards read and its          *)
(* transactions write.  Amounts are in these units: COMP and WBTC in whole *)
(* tokens, WETH in 10^15 wei, USDC in 10^8 base units (so that             *)
(* exp(100_000_000, decimals) is 10^decimals).                             *)
(***************************************************************************)
CompAmount == 1000000    \* exp(1_000_000, 18), in whole COMP
WethThreshold == 10      \* exp(0.01, 18) of the guard, in 10^15 wei
WethDeposit == 10        \* exp(0.01, 18) of deposit's value, in 10^15 wei
UsdcDecimals == 6        \* the decimals USDC.initialize is given
WbtcAmount == 20         \* exp(20, WBTC.decimals()), in whole WBTC

Guards == {"usdc", "comp", "weth", "usdcMint", "wbtcMint"}

\* deployContracts, await by await: an awaited call (getSigner, cloneGov,
\* the deployment of USDC:admin, the clones of USDC:implementation and USDC,
\* of WBTC and WETH, deployComet, the bulker's deployment), or a guarded
\* action.
deployContracts ==
    <<"getSigner", "cloneGov", "deployUsdcAdmin", "cloneUsdcImpl", "cloneUsdc",
      "usdc", "cloneWbtc", "cloneWeth", "deployComet", "deployBulker", "comp">>

\* mintTokens, await by await.
mintTokens == <<"getSigner", "contracts", "weth", "usdcMint", "wbtcMint">>

\* deploy with the two calls exchanged.
deployMintTokensFirst == mintTokens \o deployContracts

\* deploy: deployContracts, then mintTokens, then the return.
deploy == deployContracts \o mintTokens

\* The awaited calls of each guarded action's effect, in the order written.
Effect(g) ==
    CASE g = "usdc" -> <<"changeAdmin", "initialize">>
      [] g = "comp" -> <<"transfer", "traceCompRewards", "traceCompSigner">>
      [] g = "weth" -> <<"deposit", "traceWeth">>
      [] g = "usdcMint" ->
            <<"usdcDecimals", "configureMinter", "mintUsdc", "traceUsdc">>
      [] g = "wbtcMint" -> <<"wbtcDecimals", "mintWbtc", "traceWbtc">>

\* The weth guard with "at most" in place of "less than".
PreconditionLte(g, c) ==
    CASE g = "usdc" -> c.usdcAdmin # "usdcProxyAdmin"
      [] g = "comp" -> c.comp = 0
      [] g = "weth" -> c.weth <= WethThreshold
      [] g = "usdcMint" -> c.usdc = 0
      [] g = "wbtcMint" -> c.wbtc = 0

\* The precondition of each guarded action, read from the target.
Precondition(g, c) ==
    CASE g = "usdc" -> c.usdcAdmin # "usdcProxyAdmin"
      [] g = "comp" -> c.comp = 0
      [] g = "weth" -> c.weth < WethThreshold
      [] g = "usdcMint" -> c.usdc = 0
      [] g = "wbtcMint" -> c.wbtc = 0

\* USDC.decimals(): what initialize set, 0 before.
Decimals(c) == IF c.usdcInitialized THEN UsdcDecimals ELSE 0

\* exp(100_000_000, await USDC.decimals()), in 10^8 base units.
UsdcAmount(c) == 10 ^ Decimals(c)

\* The calls of the effects that send a transaction (the calls the script
\* passes to wait); the others read the target.
Transactions ==
    {"changeAdmin", "initialize", "transfer", "deposit", "configureMinter",
     "mintUsdc", "mintWbtc"}

\* What a transaction that was mined wrote, as far as the guards read it:
\* what the call's name and arguments say (changeAdmin sets the admin slot
\* to the address given, transfer, deposit and mint add the amount given to
\* the balance of the account given).  The contracts called are clones of
\* deployed contracts and no code of theirs says more: whether a contract
\* lets a call through is left open, every call may return or throw.
Written(op, c) ==
    CASE op = "changeAdmin" -> [c EXCEPT !.usdcAdmin = "usdcProxyAdmin"]
      [] op = "initialize" -> [c EXCEPT !.usdcInitialized = TRUE]
      [] op = "transfer" -> [c EXCEPT !.comp = c.comp + CompAmount]
      [] op = "deposit" -> [c EXCEPT !.weth = c.weth + WethDeposit]
      [] op = "mintUsdc" -> [c EXCEPT !.usdc = c.usdc + UsdcAmount(c)]
      [] op = "mintWbtc" -> [c EXCEPT !.wbtc = c.wbtc + WbtcAmount]
      [] OTHER -> c

\* The target after call op went through: what it wrote, and one more
\* transaction of its kind mined.
Applied(op, c) ==
    IF op \in Transactions
    THEN [Written(op, c) EXCEPT !.mined[op] = c.mined[op] + 1]
    ELSE c

Event(guard, op, result) == [guard |-> guard, op |-> op, result |-> result]

At(line, phase, k) == [line |-> line, phase |-> phase, k |-> k, error |-> "none"]

\* Where a run stands when line `line` of deploy is reached.
Line(line) ==
    IF line > Len(deploy) THEN At(line, "returned", 0)
    ELSE IF deploy[line] \in Guards THEN At(line, "condition", 0)
    ELSE At(line, "await", 0)

Rejected(op) == [dpc EXCEPT !.phase = "rejected", !.error = op]

Running == dpc.phase \in {"await", "condition", "effect"}

DeployInit ==
    /\ chain \in [usdcAdmin : {"signer"}, usdcInitialized : {FALSE},
                  comp : {0},
                  weth : {0, WethThreshold - 1, WethThreshold},
                  usdc : {0}, wbtc : {0},
                  mined : {[op \in Transactions |-> 0]}]
    /\ dpc = At(0, "idle", 0)
    /\ dlog = << >>
    /\ dhist = << >>

\* deploy is called: the first run, or a run after one that ended.
StartDeploy ==
    /\ ~Running
    /\ Len(dhist) + 1 < MaxDeploys \/ dpc.phase = "idle"
    /\ dhist' = IF dpc.phase = "idle" THEN dhist
                ELSE Append(dhist, [outcome |-> dpc.phase, error |-> dpc.error,
                                    events |-> dlog, chain |-> chain])
    /\ dlog' = << >>
    /\ dpc' = Line(1)
    /\ UNCHANGED <<chain, composerVars, codecVars, contractVars>>

\* An awaited call that is no guarded action (getSigner, cloneGov, a
\* deployment or a clone, deployComet, contracts()) returns.
AwaitReturns ==
    /\ dpc.phase = "await"
    /\ dlog' = Append(dlog, Event("none", deploy[dpc.line], "ok"))
    /\ dpc' = Line(dpc.line + 1)
    /\ UNCHANGED <<chain, dhist, composerVars, codecVars, contractVars>>

\* ... or throws: the run ends.
AwaitThrows ==
    /\ dpc.phase = "await"
    /\ dlog' = Append(dlog, Event("none", deploy[dpc.line], "threw"))
    /\ dpc' = Rejected(deploy[dpc.line])
    /\ UNCHANGED <<chain, dhist, composerVars, codecVars, contractVars>>

(***************************************************************************)
(* deploymentManager.idempotent(condition, effect): the condition is       *)
(* awaited; when it is false the call returns; when it is true the effect  *)
(* is called and awaited once; what the condition or the effect throws     *)
(* passes to the caller.                                                   *)
(***************************************************************************)
\* Where the run stands once the condition has returned `needed`, ignored.
AfterConditionIgnored(needed) == [dpc EXCEPT !.phase = "effect", !.k = 1]

\* Where the run stands once the condition has returned `needed`.
AfterCondition(needed) ==
    IF needed THEN [dpc EXCEPT !.phase = "effect", !.k = 1]
    ELSE Line(dpc.line + 1)

\* A throwing condition taken for "already satisfied".
AfterConditionThrewSwallowed == Line(dpc.line + 1)

\* Where the run stands once the condition has thrown.
AfterConditionThrew == Rejected("condition")

\* A throwing effect called again from its start.
AfterEffectThrewRetried(op) == [dpc EXCEPT !.k = 1]

\* Where the run stands once call op of the effect has thrown.
AfterEffectThrew(op) == Rejected(op)

ConditionReturns ==
    /\ dpc.phase = "condition"
    /\ LET g == deploy[dpc.line]
           needed == Precondition(g, chain)
       IN  /\ dlog' = Append(dlog, Event(g, "condition",
                                         IF needed THEN "true" ELSE "false"))
           /\ dpc' = AfterCondition(needed)
    /\ UNCHANGED <<chain, dhist, composerVars, codecVars, contractVars>>

\* The read of the target fails.
ConditionThrows ==
    /\ dpc.phase = "condition"
    /\ dlog' = Append(dlog, Event(deploy[dpc.line], "condition", "threw"))
    /\ dpc' = AfterConditionThrew
    /\ UNCHANGED <<chain, dhist, composerVars, codecVars, contractVars>>

\* The effect's next awaited call goes through; after the last one the
\* effect, and with it the guarded action, has returned.
EffectReturns ==
    /\ dpc.phase = "effect"
    /\ LET g == deploy[dpc.line]
           op == Effect(g)[dpc.k]
       IN  /\ chain' = Applied(op, chain)
           /\ dlog' = Append(dlog, Event(g, op, "ok"))
           /\ dpc' = IF dpc.k < Len(Effect(g)) THEN [dpc EXCEPT !.k = dpc.k + 1]
                     ELSE Line(dpc.line + 1)
    /\ UNCHANGED <<dhist, composerVars, codecVars, contractVars>>

\* The effect's next awaited call throws with nothing written (the target
\* refuses it, or the node fails).
EffectThrows ==
    /\ dpc.phase = "effect"
    /\ LET g == deploy[dpc.line]
           op == Effect(g)[dpc.k]
       IN  /\ dlog' = Append(dlog, Event(g, op, "threw"))
           /\ dpc' = AfterEffectThrew(op)
    /\ UNCHANGED <<chain, dhist, composerVars, codecVars, contractVars>>

\* The effect's next awaited call is wait(transaction) and throws once the
\* transaction was mined (the node fails while wait is pending).
WaitThrows ==
    /\ dpc.phase = "effect"
    /\ LET g == deploy[dpc.line]
           op == Effect(g)[dpc.k]
       IN  /\ op \in Transactions
           /\ chain' = Applied(op, chain)
           /\ dlog' = Append(dlog, Event(g, op, "threw"))
           /\ dpc' = AfterEffectThrew(op)
    /\ UNCHANGED <<dhist, composerVars, codecVars, contractVars>>

DeployNext ==
    \/ StartDeploy
    \/ AwaitReturns
    \/ AwaitThrows
    \/ ConditionReturns
    \/ ConditionThrows
    \/ EffectReturns
    \/ EffectThrows
    \/ WaitThrows

(***************************************************************************)
(* The configuration codec (packAssetConfig and its helpers).              *)
(*                                                                         *)
(* A magnitude is a non-negative integer of any size, held as its bytes,   *)
(* least significant first, with no zero byte at the top (0 is << >>).     *)
(* A bigint is held as its sign and its magnitude.                         *)
(* A Number is an IEEE-754 double other than NaN, held as its sign, an     *)
(* integer significand and a binary exponent: value = (-1)^neg * m * 2^e,  *)
(* with m = 1 and e = 1024 for an infinity.                                *)
(* The arithmetic splits its operands in halves, which keeps the depth of  *)
(* evaluation logarithmic in their length.                                 *)
(***************************************************************************)
Byte == 256

Max(S) == CHOOSE m \in S : \A n \in S : n <= m

Norm(x) == SubSeq(x, 1, Max({0} \cup {i \in 1..Len(x) : x[i] # 0}))

RECURSIVE BigInt(_)
BigInt(n) == IF n = 0 THEN << >> ELSE <<n % Byte>> \o BigInt(n \div Byte)

ByteAt(x, i) == IF i <= Len(x) THEN x[i] ELSE 0

Low(x) == SubSeq(x, 1, Len(x) \div 2)

High(x) == SubSeq(x, Len(x) \div 2 + 1, Len(x))

\* -1, 0, 1 as x is below, equal to, above y.
Cmp(x, y) ==
    LET differ == {i \in 1..Max({Len(x), Len(y)}) : ByteAt(x, i) # ByteAt(y, i)}
    IN  IF differ = {} THEN 0
        ELSE IF ByteAt(x, Max(differ)) < ByteAt(y, Max(differ)) THEN -1
        ELSE 1

\* Bytes lo..hi of x + y + carry, and the carry out of them.
RECURSIVE AddCarry(_, _, _, _, _)
AddCarry(x, y, lo, hi, carry) ==
    IF lo > hi THEN [bytes |-> << >>, carry |-> carry]
    ELSE IF lo = hi
    THEN [bytes |-> <<(ByteAt(x, lo) + ByteAt(y, lo) + carry) % Byte>>,
          carry |-> (ByteAt(x, lo) + ByteAt(y, lo) + carry) \div Byte]
    ELSE LET low == AddCarry(x, y, lo, (lo + hi) \div 2, carry)
             high == AddCarry(x, y, (lo + hi) \div 2 + 1, hi, low.carry)
         IN  [bytes |-> low.bytes \o high.bytes, carry |-> high.carry]

Add(x, y) ==
    LET s == AddCarry(x, y, 1, Max({Len(x), Len(y)}), 0)
    IN  Norm(s.bytes \o <<s.carry>>)

\* Bytes lo..hi of x - y - borrow, and the borrow out of them.
RECURSIVE SubBorrow(_, _, _, _, _)
SubBorrow(x, y, lo, hi, borrow) ==
    IF lo > hi THEN [bytes |-> << >>, borrow |-> borrow]
    ELSE IF lo = hi
    THEN [bytes |-> <<(ByteAt(x, lo) - ByteAt(y, lo) - borrow + Byte) % Byte>>,
          borrow |-> IF ByteAt(x, lo) - ByteAt(y, lo) - borrow < 0 THEN 1 ELSE 0]
    ELSE LET low == SubBorrow(x, y, lo, (lo + hi) \div 2, borrow)
             high == SubBorrow(x, y, (lo + hi) \div 2 + 1, hi, low.borrow)
         IN  [bytes |-> low.bytes \o high.bytes, borrow |-> high.borrow]

\* x - y for x >= y.
Sub(x, y) == Norm(SubBorrow(x, y, 1, Len(x), 0).bytes)

\* x * k + carry for machine-sized k and carry (k < 2^23): the bytes of the
\* product up to the length of x, and the carry out of them.
RECURSIVE MulCarry(_, _, _)
MulCarry(x, k, carry) ==
    IF x = << >> THEN [bytes |-> << >>, carry |-> carry]
    ELSE IF Len(x) = 1
    THEN [bytes |-> <<(x[1] * k + carry) % Byte>>,
          carry |-> (x[1] * k + carry) \div Byte]
    ELSE LET lo == MulCarry(Low(x), k, carry)
             hi == MulCarry(High(x), k, lo.carry)
         IN  [bytes |-> lo.bytes \o hi.bytes, carry |-> hi.carry]

MulSmall(x, k) ==
    LET p == MulCarry(x, k, 0) IN Norm(p.bytes \o BigInt(p.carry))

RECURSIVE Mul(_, _)
Mul(x, y) ==
    IF y = << >> \/ x = << >> THEN << >>
    ELSE IF Len(y) = 1 THEN MulSmall(x, y[1])
    ELSE IF Len(x) < Len(y) THEN Mul(y, x)
    ELSE Add(Mul(x, Low(y)),
             [i \in 1..(Len(y) \div 2) |-> 0] \o Mul(x, High(y)))

Reverse(x) == [i \in 1..Len(x) |-> x[Len(x) + 1 - i]]

\* Quotient bytes (top byte first) and remainder of rem * 256^Len(x) + x by
\* a machine-sized k (0 <= rem < k < 2^23), the high half first.
RECURSIVE DivRem(_, _, _)
DivRem(x, k, rem) ==
    IF x = << >> THEN [q |-> << >>, r |-> rem]
    ELSE IF Len(x) = 1
    THEN [q |-> <<(rem * Byte + x[1]) \div k>>, r |-> (rem * Byte + x[1]) % k]
    ELSE LET hi == DivRem(High(x), k, rem)
             lo == DivRem(Low(x), k, hi.r)
         IN  [q |-> hi.q \o lo.q, r |-> lo.r]

DivSmall(x, k) == Norm(Reverse(DivRem(x, k, 0).q))

\* The largest d in lo..hi with y * d <= rem.
RECURSIVE QuotientDigit(_, _, _, _)
QuotientDigit(rem, y, lo, hi) ==
    IF lo = hi THEN lo
    ELSE LET mid == (lo + hi + 1) \div 2
         IN  IF Cmp(MulSmall(y, mid), rem) <= 0
             THEN QuotientDigit(rem, y, mid, hi)
             ELSE QuotientDigit(rem, y, lo, mid - 1)

\* Quotient bytes (top byte first) and remainder of rem * 256^Len(x) + x by
\* y (rem < y), the high half first.
RECURSIVE DivLong(_, _, _)
DivLong(x, y, rem) ==
    IF x = << >> THEN [q |-> << >>, r |-> rem]
    ELSE IF Len(x) = 1
    THEN LET cur == Norm(x \o rem)
             d == QuotientDigit(cur, y, 0, Byte - 1)
         IN  [q |-> <<d>>, r |-> Sub(cur, MulSmall(y, d))]
    ELSE LET hi == DivLong(High(x), y, rem)
             lo == DivLong(Low(x), y, hi.r)
         IN  [q |-> hi.q \o lo.q, r |-> lo.r]

\* x / y on BigInts (y > 0n): the quotient is truncated.
Div(x, y) ==
    IF Cmp(x, y) < 0 THEN << >>
    ELSE IF Len(y) = 1 THEN DivSmall(x, y[1])
    ELSE Norm(Reverse(DivLong(x, y, << >>).q))

\* 10n ** k, by squaring.
RECURSIVE Pow10(_)
Pow10(k) ==
    IF k < 7 THEN BigInt(10 ^ k)
    ELSE LET half == Pow10(k \div 2)
         IN  MulSmall(Mul(half, half), 10 ^ (k % 2))

\* x << n and x >> n.
Shl(x, n) ==
    IF x = << >> THEN << >>
    ELSE [i \in 1..(n \div 8) |-> 0]
         \o (IF n % 8 = 0 THEN x ELSE MulSmall(x, 2 ^ (n % 8)))

Shr(x, n) ==
    IF n \div 8 >= Len(x) THEN << >>
    ELSE IF n % 8 = 0 THEN SubSeq(x, n \div 8 + 1, Len(x))
    ELSE DivSmall(SubSeq(x, n \div 8 + 1, Len(x)), 2 ^ (n % 8))

\* x mod 2^n.
LowBits(x, n) ==
    Norm([i \in 1..(IF Len(x) < n \div 8 + 1 THEN Len(x) ELSE n \div 8 + 1) |->
            IF i <= n \div 8 THEN x[i] ELSE x[i] % (2 ^ (n % 8))])

RECURSIVE Width(_)
Width(b) == IF b = 0 THEN 0 ELSE 1 + Width(b \div 2)

\* The number of significant bits of x.
BitLen(x) == IF x = << >> THEN 0 ELSE 8 * (Len(x) - 1) + Width(x[Len(x)])

\* A bigint of the given sign and magnitude; there is no negative 0n.
Signed(neg, mag) == [neg |-> neg /\ mag # << >>, mag |-> mag]

\* The machine integer a small magnitude is.
RECURSIVE ToNat(_)
ToNat(x) == IF x = << >> THEN 0 ELSE x[1] + Byte * ToNat(Tail(x))

RECURSIVE OrByte(_, _)
OrByte(a, b) ==
    IF a = 0 THEN b
    ELSE IF b = 0 THEN a
    ELSE (IF a % 2 = 1 \/ b % 2 = 1 THEN 1 ELSE 0)
         + 2 * OrByte(a \div 2, b \div 2)

\* x | y on magnitudes.
Or(x, y) ==
    [i \in 1..(IF Len(x) < Len(y) THEN Len(y) ELSE Len(x)) |->
        OrByte(ByteAt(x, i), ByteAt(y, i))]

RECURSIVE AndByte(_, _)
AndByte(a, b) ==
    IF a = 0 \/ b = 0 THEN 0
    ELSE (IF a % 2 = 1 /\ b % 2 = 1 THEN 1 ELSE 0)
         + 2 * AndByte(a \div 2, b \div 2)

\* x & y and x & ~y on magnitudes.
And(x, y) == Norm([i \in 1..Len(x) |-> AndByte(x[i], ByteAt(y, i))])

AndNot(x, y) ==
    Norm([i \in 1..Len(x) |-> AndByte(x[i], Byte - 1 - ByteAt(y, i))])

\* x | y on bigints: a negative bigint is the two's complement of its
\* magnitude, that is ~(magnitude - 1), on as many bits as needed.
BitOr(x, y) ==
    IF ~x.neg /\ ~y.neg THEN Signed(FALSE, Or(x.mag, y.mag))
    ELSE IF x.neg /\ y.neg
    THEN Signed(TRUE, Add(And(Sub(x.mag, <<1>>), Sub(y.mag, <<1>>)), <<1>>))
    ELSE IF x.neg
    THEN Signed(TRUE, Add(AndNot(Sub(x.mag, <<1>>), y.mag), <<1>>))
    ELSE Signed(TRUE, Add(AndNot(Sub(y.mag, <<1>>), x.mag), <<1>>))

\* x << n on a bigint (n >= 0).
ShiftLeft(x, n) == Signed(x.neg, Shl(x.mag, n))

\* x / y on bigints (y # 0n): the quotient is truncated towards zero.
Divide(x, y) == Signed(x.neg # y.neg, Div(x.mag, y.mag))

\* A string is the sequence of its characters.
HexChars ==
    <<"0", "1", "2", "3", "4", "5", "6", "7", "8", "9",
      "a", "b", "c", "d", "e", "f">>

UpperHexChars == <<"A", "B", "C", "D", "E", "F">>

\* The value of character c as a digit, 99 when it is no digit of any radix.
DigitValue(c) ==
    IF \E v \in 1..16 : HexChars[v] = c
    THEN (CHOOSE v \in 1..16 : HexChars[v] = c) - 1
    ELSE IF \E v \in 1..6 : UpperHexChars[v] = c
    THEN (CHOOSE v \in 1..6 : UpperHexChars[v] = c) + 9
    ELSE 99

\* a.match(/^0x[a-fA-F0-9]{40}$/) !== null
isAddress(a) ==
    /\ Len(a) = 42
    /\ a[1] = "0"
    /\ a[2] = "x"
    /\ \A i \in 3..42 : DigitValue(a[i]) < 16

\* address(a): the string, or the error thrown.
address(a) ==
    IF ~isAddress(a) THEN [threw |-> "expected address", value |-> a]
    ELSE [threw |-> "none", value |-> a]

\* The value of at most five digits, as a machine integer.
RECURSIVE ChunkValue(_, _)
ChunkValue(chars, radix) ==
    IF chars = << >> THEN 0
    ELSE ChunkValue(SubSeq(chars, 1, Len(chars) - 1), radix) * radix
         + DigitValue(chars[Len(chars)])

\* The value of a digit string, five digits at a time.
RECURSIVE ParseDigits(_, _)
ParseDigits(chars, radix) ==
    IF Len(chars) <= 5 THEN BigInt(ChunkValue(chars, radix))
    ELSE Add(MulSmall(ParseDigits(SubSeq(chars, 1, Len(chars) - 5), radix),
                      radix ^ 5),
             BigInt(ChunkValue(SubSeq(chars, Len(chars) - 4, Len(chars)),
                               radix)))

\* The StrWhiteSpaceChar that BigInt(string) removes from the ends of a
\* string, as far as a string here can hold them: SPACE, TAB, LF, CR, FF,
\* then LINE TABULATION (U+000B), NO-BREAK SPACE (U+00A0), OGHAM SPACE MARK
\* (U+1680) and ZERO WIDTH NO-BREAK SPACE (U+FEFF).  The others (U+2000 to
\* U+200A, U+2028, U+2029, U+202F, U+205F, U+3000) cannot be written in a
\* string of this language, and no input modelled contains them.
WhiteSpace == {" ", "\t", "\n", "\r", "\f", "", " ", " ", "﻿"}

\* The string without the white space at its ends.
Trim(a) ==
    LET kept == {i \in 1..Len(a) : a[i] \notin WhiteSpace}
    IN  IF kept = {} THEN << >>
        ELSE SubSeq(a, CHOOSE i \in kept : \A j \in kept : i <= j, Max(kept))

\* BigInt(a) for a string a: white space at the ends is dropped; the empty
\* string is 0n, a 0x, 0o or 0b prefix selects the radix, digits alone,
\* or after one + or -, are decimal, anything else is a SyntaxError.
StringToBigInt(a) ==
    LET t == Trim(a)
        sign == IF t # << >> /\ t[1] \in {"+", "-"} THEN 1 ELSE 0
        radix == IF Len(t) >= 2 /\ t[1] = "0" /\ t[2] \in {"x", "X"} THEN 16
                 ELSE IF Len(t) >= 2 /\ t[1] = "0" /\ t[2] \in {"o", "O"} THEN 8
                 ELSE IF Len(t) >= 2 /\ t[1] = "0" /\ t[2] \in {"b", "B"} THEN 2
                 ELSE 10
        digits == IF radix = 10 THEN SubSeq(t, 1 + sign, Len(t))
                  ELSE SubSeq(t, 3, Len(t))
    IN  IF t = << >> THEN [threw |-> "none", value |-> Signed(FALSE, << >>)]
        ELSE IF digits = << >>
                \/ \E i \in 1..Len(digits) : DigitValue(digits[i]) >= radix
        THEN [threw |-> "SyntaxError", value |-> Signed(FALSE, << >>)]
        ELSE [threw |-> "none",
              value |-> Signed(sign = 1 /\ t[1] = "-",
                               ParseDigits(digits, radix))]

Infinity(neg) == [neg |-> neg, m |-> <<1>>, e |-> 1024]

IsInfinite(n) == BitLen(n.m) + n.e > 1024

\* The double nearest to the integer p times 2^e (ties to even); sticky says
\* that a non-zero amount below one unit of p was already dropped.  The
\* significand keeps 53 bits, fewer below 2^-1022 where the unit stays
\* 2^-1074; what rounds to 2^1024 or above is an infinity.
RoundToDouble(neg, p, e, sticky) ==
    LET s == Max({0, BitLen(p) - 53, -1074 - e})
        q == Shr(p, s)
        c == Cmp(LowBits(p, s), Shl(<<1>>, s - 1))
        up == c = 1 \/ (c = 0 /\ (sticky \/ ByteAt(q, 1) % 2 = 1))
        m == IF up THEN Add(q, <<1>>) ELSE q
    IN  IF s = 0 THEN [neg |-> neg, m |-> p, e |-> e]
        ELSE IF BitLen(m) + e + s > 1024 THEN Infinity(neg)
        ELSE [neg |-> neg, m |-> m, e |-> e + s]

\* The Number a configuration's literal denotes: digits times 10^exp, negated
\* when neg.
Literal(neg, digits, exp) ==
    IF exp >= 0
    THEN RoundToDouble(neg, Mul(BigInt(digits), Pow10(exp)), 0, FALSE)
    ELSE LET t == 64 + 4 * (-exp)
             scaled == Shl(BigInt(digits), t)
             q == Div(scaled, Pow10(-exp))
         IN  RoundToDouble(neg, q, -t, Mul(q, Pow10(-exp)) # scaled)

\* a * b on Numbers.
Times(a, b) == RoundToDouble(a.neg # b.neg, Mul(a.m, b.m), a.e + b.e, FALSE)

\* n > 1.0 and n < 0 on a Number.
GreaterThanOne(n) ==
    /\ ~n.neg
    /\ IF n.e >= 0 THEN Cmp(Shl(n.m, n.e), <<1>>) = 1
       ELSE Cmp(n.m, Shl(<<1>>, -n.e)) = 1

LessThanZero(n) == n.neg /\ n.m # << >>

\* n is a whole number.
IsWhole(n) == n.e >= 0 \/ LowBits(n.m, -n.e) = << >>

\* BigInt(Math.floor(n)): below zero the floor is one further from zero
\* unless n is whole; BigInt throws a RangeError for an infinity.
floor(n) ==
    IF IsInfinite(n)
    THEN [threw |-> "RangeError", value |-> Signed(FALSE, << >>)]
    ELSE IF n.e >= 0
    THEN [threw |-> "none", value |-> Signed(n.neg, Shl(n.m, n.e))]
    ELSE IF n.neg /\ ~IsWhole(n)
    THEN [threw |-> "none",
          value |-> Signed(TRUE, Add(Shr(n.m, -n.e), <<1>>))]
    ELSE [threw |-> "none", value |-> Signed(n.neg, Shr(n.m, -n.e))]

\* number(n, checkRange): floor(Number(n)); checkRange is not read.
number(n) == floor(n)

\* BigInt(n) for a Number n: a RangeError unless n is a whole number.
NumberToBigInt(n) ==
    IF IsInfinite(n) \/ ~IsWhole(n)
    THEN [threw |-> "RangeError", value |-> Signed(FALSE, << >>)]
    ELSE floor(n)

\* percentage with a range check that clamps instead of throwing.
percentageClamped(n) ==
    IF GreaterThanOne(n)
    THEN [threw |-> "none", value |-> Signed(FALSE, Pow10(18))]
    ELSE IF LessThanZero(n)
    THEN [threw |-> "none", value |-> Signed(FALSE, << >>)]
    ELSE floor(Times(n, Literal(FALSE, 1, 18)))

\* percentage(n), checkRange left at its default (true).
percentage(n) ==
    IF GreaterThanOne(n)
    THEN [threw |-> "percentage greater than 100%",
          value |-> Signed(FALSE, << >>)]
    ELSE IF LessThanZero(n)
    THEN [threw |-> "percentage less than 0%", value |-> Signed(FALSE, << >>)]
    ELSE floor(Times(n, Literal(FALSE, 1, 18)))

Thrown(error) ==
    [threw |-> error, word_a |-> Signed(FALSE, << >>),
     word_b |-> Signed(FALSE, << >>)]

\* const descale = (10n**18n) / (10n**4n)
descaleCoarse == Signed(FALSE, Div(Pow10(18), Pow10(3)))

descale == Signed(FALSE, Div(Pow10(18), Pow10(4)))

\* 10n ** decimals, for decimals >= 0n.
TenToThe(decimals) == Signed(FALSE, Pow10(ToNat(decimals.mag)))

\* The returned object of packAssetConfig with two factors' offsets exchanged.
WordsFactorsExchanged(f) ==
    [threw |-> "none",
     word_a |-> BitOr(BitOr(BitOr(f.asset,
                         ShiftLeft(Divide(f.borrowCF, descale), 176)),
                      ShiftLeft(Divide(f.liquidateCF, descale), 160)),
                   ShiftLeft(Divide(f.liquidationFactor, descale), 192)),
     word_b |-> BitOr(BitOr(f.priceFeed, ShiftLeft(f.decimals, 160)),
                   ShiftLeft(Divide(f.supplyCap, TenToThe(f.decimals)), 168))]

\* The returned object of packAssetConfig, f holding the values of its local
\* variables.
Words(f) ==
    [threw |-> "none",
     word_a |-> BitOr(BitOr(BitOr(f.asset,
                         ShiftLeft(Divide(f.borrowCF, descale), 160)),
                      ShiftLeft(Divide(f.liquidateCF, descale), 176)),
                   ShiftLeft(Divide(f.liquidationFactor, descale), 192)),
     word_b |-> BitOr(BitOr(f.priceFeed, ShiftLeft(f.decimals, 160)),
                   ShiftLeft(Divide(f.supplyCap, TenToThe(f.decimals)), 168))]

\* packAssetConfig(assetAddress, assetConfig): the two words, or the first
\* error thrown, in the order the statements run: the conversions of lines
\* 129 to 134, BigInt(assetAddress) of word_a and, in word_b, 10n**decimals,
\* a RangeError for decimals below 0n.
packAssetConfig(assetAddress, assetConfig) ==
    LET priceFeedAddress == address(assetConfig.priceFeed)
        decimals == NumberToBigInt(assetConfig.decimals)
        borrowCF == percentage(assetConfig.borrowCF)
        liquidateCF == percentage(assetConfig.liquidateCF)
        liquidationFactor == percentage(assetConfig.liquidationFactor)
        supplyCap == number(assetConfig.supplyCap)
        asset == StringToBigInt(assetAddress)
    IN  IF priceFeedAddress.threw # "none" THEN Thrown(priceFeedAddress.threw)
        ELSE IF decimals.threw # "none" THEN Thrown(decimals.threw)
        ELSE IF borrowCF.threw # "none" THEN Thrown(borrowCF.threw)
        ELSE IF liquidateCF.threw # "none" THEN Thrown(liquidateCF.threw)
        ELSE IF liquidationFactor.threw # "none"
        THEN Thrown(liquidationFactor.threw)
        ELSE IF supplyCap.threw # "none" THEN Thrown(supplyCap.threw)
        ELSE IF asset.threw # "none" THEN Thrown(asset.threw)
        ELSE IF decimals.value.neg THEN Thrown("RangeError")
        ELSE Words([asset |-> asset.value,
                    priceFeed |-> StringToBigInt(priceFeedAddress.value).value,
                    decimals |-> decimals.value,
                    borrowCF |-> borrowCF.value,
                    liquidateCF |-> liquidateCF.value,
                    liquidationFactor |-> liquidationFactor.value,
                    supplyCap |-> supplyCap.value])

\* The configurations packed: strings for the addresses, literals of
\* configuration.json for the numbers.
Chars(c, n) == [i \in 1..n |-> c]

Lit(neg, digits, exp) == [neg |-> neg, digits |-> digits, exp |-> exp]

AssetAddresses ==
    { <<"0", "x">> \o Chars("0", 40),
      <<"0", "x", "A", "B", "c", "d">> \o Chars("0", 35) \o <<"1">>,
      <<"0", "x">> \o Chars("f", 40),
      <<"0", "x">> \o Chars("1", 39),
      <<"0", "x", "1">> \o Chars("0", 40),
      <<"0", "x", "g">> \o Chars("0", 39),
      << >> }

PriceFeeds ==
    { <<"0", "x">> \o Chars("F", 40),
      <<"0", "x">> \o Chars("0", 38) \o <<"2", "a">>,
      Chars("7", 40) }

DecimalsValues ==
    {Lit(FALSE, 0, 0), Lit(FALSE, 6, 0), Lit(FALSE, 18, 0), Lit(FALSE, 256, 0)}

Factors ==
    { <<Lit(FALSE, 8, -1), Lit(FALSE, 85, -2), Lit(FALSE, 95, -2)>>,
      <<Lit(FALSE, 0, 0), Lit(FALSE, 1, 0), Lit(FALSE, 9999, -4)>>,
      <<Lit(FALSE, 57, -2), Lit(FALSE, 21, -4), Lit(FALSE, 123456, -6)>>,
      <<Lit(FALSE, 57, -2), Lit(FALSE, 85, -2), Lit(FALSE, 6376, -4)>>,
      <<Lit(FALSE, 3, -4), Lit(FALSE, 3, -1), Lit(FALSE, 1, -9)>>,
      <<Lit(FALSE, 1000000001, -9), Lit(FALSE, 85, -2), Lit(FALSE, 95, -2)>>,
      <<Lit(FALSE, 8, -1), Lit(TRUE, 5, -2), Lit(FALSE, 95, -2)>>,
      <<Lit(FALSE, 8, -1), Lit(FALSE, 85, -2), Lit(FALSE, 15, -1)>> }

SupplyCaps == {Lit(FALSE, 0, 0), Lit(FALSE, 1999999, 6), Lit(FALSE, 35, 22),
               Lit(FALSE, 1, 60)}

NumberOf(l) == Literal(l.neg, l.digits, l.exp)

AssetConfig(c) ==
    [priceFeed |-> c.priceFeed,
     decimals |-> NumberOf(c.decimals),
     borrowCF |-> NumberOf(c.borrowCF),
     liquidateCF |-> NumberOf(c.liquidateCF),
     liquidationFactor |-> NumberOf(c.liquidationFactor),
     supplyCap |-> NumberOf(c.supplyCap)]

\* A configuration that packs, and the values one of its fields is
\* replaced by: an asset address with white space or a sign, decimals that
\* are not a whole number or are below zero, a supply cap below zero or too
\* large for a finite Number.
Usual ==
    [assetAddress |-> <<"0", "x", "A", "B", "c", "d">> \o Chars("0", 35)
                          \o <<"1">>,
     priceFeed |-> <<"0", "x">> \o Chars("0", 38) \o <<"2", "a">>,
     decimals |-> Lit(FALSE, 18, 0),
     borrowCF |-> Lit(FALSE, 8, -1), liquidateCF |-> Lit(FALSE, 85, -2),
     liquidationFactor |-> Lit(FALSE, 95, -2),
     supplyCap |-> Lit(FALSE, 35, 22)]

Unusual ==
    {[Usual EXCEPT !.assetAddress = a] :
        a \in { <<" ">> \o Usual.assetAddress, Usual.assetAddress \o <<" ">>,
                <<" ">>, <<"+", "5">>, <<"-", "5">>, <<"\t", "7", "\n">>,
                <<"-", "0", "x", "1", "0">>, <<"0", "x">>,
                \* U+000B before, U+00A0 after, U+FEFF and U+1680 around
                <<"">> \o Usual.assetAddress,
                Usual.assetAddress \o <<" ">>,
                <<"﻿">> \o Usual.assetAddress \o <<" ">>,
                \* U+000B alone, U+00A0 around -5, U+000B inside
                <<"">>, <<" ", "-", "5", " ">>, <<"7", "", "7">>,
                \* U+0085, which is not white space
                <<"", "7">> }}
    \cup {[Usual EXCEPT !.decimals = d] :
            d \in {Lit(FALSE, 15, -1), Lit(TRUE, 1, 0)}}
    \cup {[Usual EXCEPT !.supplyCap = c] :
            c \in {Lit(TRUE, 5, 18), Lit(TRUE, 5, -1), Lit(FALSE, 1, 309),
                   Lit(TRUE, 1, 309)}}
    \cup {[Usual EXCEPT !.supplyCap = Lit(TRUE, 5, -1),
                        !.decimals = Lit(FALSE, 0, 0)],
          [Usual EXCEPT !.supplyCap = Lit(FALSE, 1, 309),
                        !.borrowCF = Lit(FALSE, 1, 309)],
          [Usual EXCEPT !.decimals = Lit(FALSE, 15, -1),
                        !.liquidateCF = Lit(FALSE, 15, -1)]}

Configs ==
    {[assetAddress |-> a, priceFeed |-> p, decimals |-> d,
      borrowCF |-> f[1], liquidateCF |-> f[2], liquidationFactor |-> f[3],
      supplyCap |-> s] :
        a \in AssetAddresses, p \in PriceFeeds, d \in DecimalsValues,
        f \in Factors, s \in SupplyCaps}
    \cup Unusual

NotPacked == Thrown("not called")

ConfigurationIdle ==
    /\ networkConfiguration = << >>
    /\ configuration = << >>

CodecIdle ==
    /\ config = << >>
    /\ packed = << >>
    /\ ConfigurationIdle

CodecInit ==
    /\ config \in Configs
    /\ packed = NotPacked
    /\ ConfigurationIdle

PackAssetConfig ==
    /\ packed = NotPacked
    /\ packed' = packAssetConfig(config.assetAddress, AssetConfig(config))
    /\ UNCHANGED <<config, networkConfiguration, configuration, composerVars,
                   deployVars, contractVars>>

CodecNext == PackAssetConfig

(***************************************************************************)
(* getConfiguration: the network's configuration.json turned into the      *)
(* protocol configuration.  The contract map is a function from contract   *)
(* names to address strings; assets is the sequence of Object.entries of   *)
(* the configuration's assets.                                             *)
(***************************************************************************)
getContractAddress(contractName, contractMap) ==
    IF contractName \in DOMAIN contractMap
    THEN [threw |-> "none", value |-> contractMap[contractName]]
    ELSE [threw |-> "Cannot find contract", value |-> << >>]

\* getInterestRateInfo with the range check on kink only.
getInterestRateInfoKinkOnly(rates) ==
    LET kink == percentage(rates.kink)
        scaled == [k \in {"slopeLow", "slopeHigh", "base"} |->
                     floor(Times(rates[k], Literal(FALSE, 1, 18))).value]
    IN  IF kink.threw # "none" THEN [threw |-> kink.threw]
        ELSE [threw |-> "none",
              kink |-> kink.value,
              perYearInterestRateSlopeLow |-> scaled["slopeLow"],
              perYearInterestRateSlopeHigh |-> scaled["slopeHigh"],
              perYearInterestRateBase |-> scaled["base"]]

\* The object getInterestRateInfo returns given what its four calls of
\* percentage gave, or the first error thrown.
InterestRateInfo(scaled) ==
    IF scaled["kink"].threw # "none" THEN [threw |-> scaled["kink"].threw]
    ELSE IF scaled["slopeLow"].threw # "none"
    THEN [threw |-> scaled["slopeLow"].threw]
    ELSE IF scaled["slopeHigh"].threw # "none"
    THEN [threw |-> scaled["slopeHigh"].threw]
    ELSE IF scaled["base"].threw # "none"
    THEN [threw |-> scaled["base"].threw]
    ELSE [threw |-> "none",
          kink |-> scaled["kink"].value,
          perYearInterestRateSlopeLow |-> scaled["slopeLow"].value,
          perYearInterestRateSlopeHigh |-> scaled["slopeHigh"].value,
          perYearInterestRateBase |-> scaled["base"].value]

\* getInterestRateInfo: percentage of kink, slopeLow, slopeHigh and base.
getInterestRateInfo(rates) ==
    InterestRateInfo([k \in DOMAIN rates |-> percentage(rates[k])])

\* The object getTrackingInfo returns given what its four calls of number
\* gave, or the first error thrown.
TrackingInfo(floored) ==
    IF floored["indexScale"].threw # "none"
    THEN [threw |-> floored["indexScale"].threw]
    ELSE IF floored["baseSupplySpeed"].threw # "none"
    THEN [threw |-> floored["baseSupplySpeed"].threw]
    ELSE IF floored["baseBorrowSpeed"].threw # "none"
    THEN [threw |-> floored["baseBorrowSpeed"].threw]
    ELSE IF floored["baseMinForRewards"].threw # "none"
    THEN [threw |-> floored["baseMinForRewards"].threw]
    ELSE [threw |-> "none",
          trackingIndexScale |-> floored["indexScale"].value,
          baseTrackingSupplySpeed |-> floored["baseSupplySpeed"].value,
          baseTrackingBorrowSpeed |-> floored["baseBorrowSpeed"].value,
          baseMinForRewards |-> floored["baseMinForRewards"].value]

\* getTrackingInfo: number of indexScale, baseSupplySpeed, baseBorrowSpeed
\* and baseMinForRewards.
getTrackingInfo(tracking) ==
    TrackingInfo([k \in DOMAIN tracking |-> number(tracking[k])])

\* What the map of getAssetConfigs gives for an asset and the assets after
\* it, given the asset's address, its packed words and the rest's result.
AssetConfigs(assetAddress, struct, rest) ==
    IF assetAddress.threw # "none"
    THEN [threw |-> assetAddress.threw, value |-> << >>]
    ELSE IF struct.threw # "none"
    THEN [threw |-> struct.threw, value |-> << >>]
    ELSE IF rest.threw # "none" THEN rest
    ELSE [threw |-> "none", value |-> <<struct>> \o rest.value]

\* Object.entries(assets).map(...): the packed assets in order, or the first
\* error thrown.
RECURSIVE getAssetConfigs(_, _)
getAssetConfigs(assets, contractMap) ==
    IF assets = << >> THEN [threw |-> "none", value |-> << >>]
    ELSE AssetConfigs(
             getContractAddress(assets[1].name, contractMap),
             packAssetConfig(
                 getContractAddress(assets[1].name, contractMap).value,
                 assets[1].config),
             getAssetConfigs(Tail(assets), contractMap))

Failed(error) == [threw |-> error]

\* What getConfiguration returns given what its statements gave: the
\* protocol configuration, or the first error thrown, in the order the
\* statements run.
ProtocolConfiguration(got) ==
    IF got.baseToken.threw # "none" THEN Failed(got.baseToken.threw)
    ELSE IF got.checked["baseTokenPriceFeed"].threw # "none"
    THEN Failed(got.checked["baseTokenPriceFeed"].threw)
    ELSE IF got.checked["governor"].threw # "none"
    THEN Failed(got.checked["governor"].threw)
    ELSE IF got.checked["pauseGuardian"].threw # "none"
    THEN Failed(got.checked["pauseGuardian"].threw)
    ELSE IF got.reserveRate.threw # "none" THEN Failed(got.reserveRate.threw)
    ELSE IF got.floored["borrowMin"].threw # "none"
    THEN Failed(got.floored["borrowMin"].threw)
    ELSE IF got.floored["storeFrontPriceFactor"].threw # "none"
    THEN Failed(got.floored["storeFrontPriceFactor"].threw)
    ELSE IF got.floored["targetReserves"].threw # "none"
    THEN Failed(got.floored["targetReserves"].threw)
    ELSE IF got.rateInfo.threw # "none"
    THEN Failed(got.rateInfo.threw)
    ELSE IF got.trackingInfo.threw # "none"
    THEN Failed(got.trackingInfo.threw)
    ELSE IF got.assetConfigs.threw # "none" THEN Failed(got.assetConfigs.threw)
    ELSE [threw |-> "none",
          symbol |-> got.symbol,
          governor |-> got.checked["governor"].value,
          pauseGuardian |-> got.checked["pauseGuardian"].value,
          baseToken |-> got.baseToken.value,
          baseTokenPriceFeed |-> got.checked["baseTokenPriceFeed"].value,
          kink |-> got.rateInfo.kink,
          perYearInterestRateSlopeLow |->
              got.rateInfo.perYearInterestRateSlopeLow,
          perYearInterestRateSlopeHigh |->
              got.rateInfo.perYearInterestRateSlopeHigh,
          perYearInterestRateBase |->
              got.rateInfo.perYearInterestRateBase,
          reserveRate |-> got.reserveRate.value,
          storeFrontPriceFactor |-> got.floored["storeFrontPriceFactor"].value,
          trackingIndexScale |-> got.trackingInfo.trackingIndexScale,
          baseTrackingSupplySpeed |-> got.trackingInfo.baseTrackingSupplySpeed,
          baseTrackingBorrowSpeed |-> got.trackingInfo.baseTrackingBorrowSpeed,
          baseMinForRewards |-> got.trackingInfo.baseMinForRewards,
          baseBorrowMin |-> got.floored["borrowMin"].value,
          targetReserves |-> got.floored["targetReserves"].value,
          assetConfigs |-> got.assetConfigs.value]

\* getConfiguration, given what loadNetworkConfiguration parsed and the
\* contract map.  The calls of address and of number are kept by the name
\* of their argument.
getConfiguration(nc, contractMap) ==
    ProtocolConfiguration(
        [symbol |-> nc.symbol,
         baseToken |-> getContractAddress(nc.baseToken, contractMap),
         checked |->
             [k \in {"baseTokenPriceFeed", "governor", "pauseGuardian"} |->
                 address(nc[k])],
         reserveRate |-> percentage(nc.reserveRate),
         floored |->
             [k \in {"borrowMin", "storeFrontPriceFactor", "targetReserves"}
                |-> number(nc[k])],
         rateInfo |-> getInterestRateInfo(nc.rates),
         trackingInfo |-> getTrackingInfo(nc.tracking),
         assetConfigs |-> getAssetConfigs(nc.assets, contractMap)])

\* The configurations loaded.  The contract map holds the base token and
\* two assets, the second with a LINE TABULATION (U+000B) before its
\* address.
ContractMap ==
    [USDC |-> <<"0", "x">> \o Chars("a", 40),
     WETH |-> <<"0", "x">> \o Chars("c", 39) \o <<"2">>,
     WBTC |-> <<"", "0", "x">> \o Chars("b", 40)]

\* baseToken, baseTokenPriceFeed, governor, pauseGuardian.
Parties ==
    { <<"USDC", <<"0", "x">> \o Chars("1", 40), <<"0", "x">> \o Chars("2", 40),
        <<"0", "x">> \o Chars("3", 40)>>,
      <<"USDC", <<"0", "x">> \o Chars("1", 40), <<"0", "x">> \o Chars("2", 39),
        <<"0", "x">> \o Chars("3", 40)>>,
      <<"DAI", <<"0", "x">> \o Chars("1", 40), <<"0", "x">> \o Chars("2", 40),
        <<"0", "x">> \o Chars("3", 40)>> }

\* reserveRate, kink, slopeLow, slopeHigh, base of a configuration in
\* range, and the values one of them is replaced by.
RatesInRange ==
    <<Lit(FALSE, 1, -1), Lit(FALSE, 8, -1), Lit(FALSE, 25, -3),
      Lit(FALSE, 3, -1), Lit(FALSE, 5, -3)>>

RateValues ==
    {Lit(FALSE, 0, 0), Lit(FALSE, 1, 0), Lit(FALSE, 1000000001, -9),
     Lit(FALSE, 15, -1), Lit(TRUE, 5, -2)}

Rates ==
    {RatesInRange}
        \cup {[RatesInRange EXCEPT ![i] = v] : i \in 1..5, v \in RateValues}
        \cup {[RatesInRange EXCEPT ![2] = Lit(TRUE, 5, -2),
                                   ![5] = Lit(FALSE, 15, -1)]}

\* borrowMin, storeFrontPriceFactor, targetReserves, then the tracking
\* values indexScale, baseSupplySpeed, baseBorrowSpeed, baseMinForRewards.
Counts ==
    { <<Lit(FALSE, 1, 6), Lit(FALSE, 5, -1), Lit(FALSE, 5, 12),
        Lit(FALSE, 1, 15), Lit(FALSE, 0, 0), Lit(FALSE, 1, 0),
        Lit(FALSE, 1, 6)>>,
      <<Lit(TRUE, 15, -1), Lit(FALSE, 27, -1), Lit(TRUE, 3, 0),
        Lit(TRUE, 1, -3), Lit(FALSE, 1000000001, -9), Lit(TRUE, 5, -2),
        Lit(FALSE, 15, -1)>>,
      <<Lit(FALSE, 1, 30), Lit(FALSE, 1, 18), Lit(TRUE, 1, 30),
        Lit(FALSE, 1, 60), Lit(FALSE, 1157407407, -1), Lit(FALSE, 2, 0),
        Lit(FALSE, 1, 24)>>,
      <<Lit(FALSE, 1, 6), Lit(FALSE, 5, -1), Lit(FALSE, 5, 12),
        Lit(FALSE, 1, 15), Lit(FALSE, 0, 0), Lit(FALSE, 1, 309),
        Lit(FALSE, 1, 6)>>,
      <<Lit(FALSE, 1, 6), Lit(TRUE, 1, 309), Lit(FALSE, 5, 12),
        Lit(FALSE, 1, 15), Lit(FALSE, 0, 0), Lit(FALSE, 1, 0),
        Lit(FALSE, 1, 6)>> }

AssetOf(name, factors) ==
    [name |-> name,
     config |-> [priceFeed |-> <<"0", "x">> \o Chars("9", 40),
                 decimals |-> Lit(FALSE, 18, 0),
                 borrowCF |-> factors[1], liquidateCF |-> factors[2],
                 liquidationFactor |-> factors[3],
                 supplyCap |-> Lit(FALSE, 35, 22)]]

Assets ==
    { << >>,
      <<AssetOf("WETH", <<Lit(FALSE, 8, -1), Lit(FALSE, 85, -2),
                          Lit(FALSE, 95, -2)>>)>>,
      <<AssetOf("WETH", <<Lit(FALSE, 8, -1), Lit(FALSE, 15, -1),
                          Lit(FALSE, 95, -2)>>)>>,
      <<AssetOf("LINK", <<Lit(FALSE, 8, -1), Lit(FALSE, 85, -2),
                          Lit(FALSE, 95, -2)>>)>>,
      <<AssetOf("WBTC", <<Lit(FALSE, 8, -1), Lit(FALSE, 85, -2),
                          Lit(FALSE, 95, -2)>>)>> }

\* The parsed file, given its literals and the Numbers they denote.
NetworkConfiguration(c, numbers, nested) ==
    [symbol |-> c.symbol,
     governor |-> c.governor,
     pauseGuardian |-> c.pauseGuardian,
     baseToken |-> c.baseToken,
     baseTokenPriceFeed |-> c.baseTokenPriceFeed,
     reserveRate |-> numbers["reserveRate"],
     borrowMin |-> numbers["borrowMin"],
     storeFrontPriceFactor |-> numbers["storeFrontPriceFactor"],
     targetReserves |-> numbers["targetReserves"],
     rates |-> nested["rates"],
     tracking |-> nested["tracking"],
     assets |-> [k \in 1..Len(c.assets) |->
                   [name |-> c.assets[k].name,
                    config |-> AssetConfig(c.assets[k].config)]]]

\* JSON.parse of the file: every number literal becomes a Number.
Parsed(c) ==
    NetworkConfiguration(
        c,
        [k \in {"reserveRate", "borrowMin", "storeFrontPriceFactor",
                "targetReserves"} |-> NumberOf(c[k])],
        [g \in {"rates", "tracking"} |->
            [k \in DOMAIN c[g] |-> NumberOf(c[g][k])]])

NotLoaded == Failed("not called")

ConfigurationInit ==
    /\ \E p \in Parties, r \in Rates, c \in Counts, a \in Assets :
          networkConfiguration =
              [symbol |-> "USDC",
               baseToken |-> p[1],
               baseTokenPriceFeed |-> p[2],
               governor |-> p[3],
               pauseGuardian |-> p[4],
               reserveRate |-> r[1],
               borrowMin |-> c[1],
               storeFrontPriceFactor |-> c[2],
               targetReserves |-> c[3],
               rates |-> [kink |-> r[2], slopeLow |-> r[3],
                          slopeHigh |-> r[4], base |-> r[5]],
               tracking |-> [indexScale |-> c[4], baseSupplySpeed |-> c[5],
                             baseBorrowSpeed |-> c[6],
                             baseMinForRewards |-> c[7]],
               assets |-> a]
    /\ configuration = NotLoaded
    /\ config = << >>
    /\ packed = << >>

GetConfiguration ==
    /\ configuration = NotLoaded
    /\ configuration' =
          getConfiguration(Parsed(networkConfiguration), ContractMap)
    /\ UNCHANGED <<config, packed, networkConfiguration, composerVars,
                   deployVars, contractVars>>

ConfigurationNext == GetConfiguration

(***************************************************************************)
(* ScalingPriceFeed.sol over an underlying AggregatorV3Interface feed.      *)
(*                                                                         *)
(* An int256 is held as its sign and its magnitude (a BigInt); a uint8 and *)
(* the round ids and timestamps are small naturals.  `rounds` is the       *)
(* underlying feed (its decimals, its description and the rounds it has    *)
(* answered), `feed` the constructed ScalingPriceFeed, or the error its    *)
(* constructor reverted with, and `reading` what the last call made since  *)
(* the underlying feed's latest answer returned.                           *)
(***************************************************************************)
MaxRounds == 2

Int256(neg, mag) == [neg |-> neg /\ mag # << >>, mag |-> mag]

\* type(int256).max and the magnitude of type(int256).min.
Int256Max == Sub(Shl(<<1>>, 255), <<1>>)

Int256MinMagnitude == Shl(<<1>>, 255)

Uint256Max == Sub(Shl(<<1>>, 256), <<1>>)

FitsInt256(x) ==
    IF x.neg THEN Cmp(x.mag, Int256MinMagnitude) <= 0
    ELSE Cmp(x.mag, Int256Max) <= 0

Returns(value) == [reverted |-> "none", value |-> value]

Reverts(error) == [reverted |-> error, value |-> << >>]

\* a * b on int256 in an unchecked block: the int256 whose two's
\* complement representation is the low 256 bits of the product.
uncheckedMul(a, b) ==
    LET low == LowBits(Mul(a.mag, b.mag), 256)
        bits == IF a.neg # b.neg /\ low # << >>
                THEN Add(Sub(Uint256Max, low), <<1>>)
                ELSE low
    IN  IF Cmp(bits, Int256Max) > 0
        THEN Returns(Int256(TRUE, Add(Sub(Uint256Max, bits), <<1>>)))
        ELSE Returns(Int256(FALSE, bits))

\* a * b on int256 (0.8.15, checked): Panic(0x11) when the product is not
\* an int256.
checkedMul(a, b) ==
    LET product == Int256(a.neg # b.neg, Mul(a.mag, b.mag))
    IN  IF FitsInt256(product) THEN Returns(product) ELSE Reverts("Panic(0x11)")

\* a / b on int256 (b # 0): the quotient is rounded toward zero; Panic(0x11)
\* when it is not an int256 (type(int256).min / -1).
checkedDiv(a, b) ==
    LET quotient == Int256(a.neg # b.neg, Div(a.mag, b.mag))
    IN  IF FitsInt256(quotient) THEN Returns(quotient)
        ELSE Reverts("Panic(0x11)")

\* 10 ** k for a uint8 k: computed on uint256, checked.
checkedPow10(k) ==
    IF Cmp(Pow10(k), Uint256Max) > 0 THEN Reverts("Panic(0x11)")
    ELSE Returns(Pow10(k))

signed256(n) ==
    IF Cmp(n, Int256Max) > 0 THEN Reverts("InvalidInt256()")
    ELSE Returns(Int256(FALSE, n))

\* The constructor: the feed's immutables and description, or the error it
\* reverts with (no contract is created then).
constructor(underlyingPriceFeed_, decimals_) ==
    LET chainlinkPriceFeedDecimals == underlyingPriceFeed_.decimals
        shouldUpscale == chainlinkPriceFeedDecimals < decimals_
        power == IF shouldUpscale
                 THEN checkedPow10(decimals_ - chainlinkPriceFeedDecimals)
                 ELSE checkedPow10(chainlinkPriceFeedDecimals - decimals_)
        rescaleFactor == signed256(power.value)
    IN  IF power.reverted # "none" THEN [reverted |-> power.reverted]
        ELSE IF rescaleFactor.reverted # "none"
        THEN [reverted |-> rescaleFactor.reverted]
        ELSE [reverted |-> "none",
              decimals |-> decimals_,
              description |-> underlyingPriceFeed_.description,
              shouldUpscale |-> shouldUpscale,
              rescaleFactor |-> rescaleFactor.value]

scalePrice(price) ==
    IF feed.shouldUpscale THEN checkedMul(price, feed.rescaleFactor)
    ELSE checkedDiv(price, feed.rescaleFactor)

\* What a call returns: the round's data with the price scaled, or the
\* revert of scalePrice.
Scaled(call, arg, round) ==
    LET answer == scalePrice(round.price)
    IN  IF answer.reverted # "none"
        THEN [call |-> call, arg |-> arg, reverted |-> answer.reverted]
        ELSE [call |-> call, arg |-> arg, reverted |-> "none",
              roundId |-> round.roundId,
              answer |-> answer.value,
              startedAt |-> round.startedAt,
              updatedAt |-> round.updatedAt,
              answeredInRound |-> round.answeredInRound]

\* (decimals_, decimals of the underlying feed) of the feeds constructed.
Scalings ==
    {<<8, 8>>, <<18, 8>>, <<6, 8>>, <<84, 8>>, <<85, 8>>, <<86, 8>>, <<0, 78>>}

\* The prices the underlying feed answers.
Prices ==
    { Int256(TRUE, <<1>>),
      Int256(FALSE, Sub(MulSmall(Pow10(11), 2), <<1>>)),
      Int256(TRUE, Sub(MulSmall(Pow10(11), 2), <<1>>)),
      Int256(FALSE, Div(Int256Max, Pow10(10))),
      Int256(FALSE, Add(Div(Int256Max, Pow10(10)), <<1>>)),
      Int256(TRUE, Int256MinMagnitude) }

\* The k-th round of the underlying feed, answering `price`.
Round(k, price) ==
    [roundId |-> k,
     price |-> price,
     startedAt |-> 1000 * k,
     updatedAt |-> 1000 * k + 30,
     answeredInRound |-> k]

NoReading == [call |-> "none"]

FeedInit ==
    /\ \E s \in Scalings :
          /\ rounds = [decimals |-> s[2], description |-> "ETH / USD",
                       data |-> << >>]
          /\ feed = constructor(rounds, s[1])
    /\ reading = NoReading

\* The underlying feed answers a new round; what was read before it is
\* out of date.
UnderlyingAnswers(price) ==
    /\ Len(rounds.data) < MaxRounds
    /\ rounds' = [rounds EXCEPT
                    !.data = Append(@, Round(Len(@) + 1, price))]
    /\ reading' = NoReading
    /\ UNCHANGED <<feed, composerVars, deployVars, codecVars>>

\* latestRoundData(); an underlying feed without a round reverts, and the
\* revert passes to the caller.
LatestRoundData ==
    /\ feed.reverted = "none"
    /\ reading' = IF rounds.data = << >>
                  THEN [call |-> "latestRoundData", arg |-> 0,
                        reverted |-> "underlying"]
                  ELSE Scaled("latestRoundData", 0, rounds.data[Len(rounds.data)])
    /\ UNCHANGED <<feed, rounds, composerVars, deployVars, codecVars>>

\* getRoundData(roundId_); the underlying feed reverts for a round it has
\* not answered.
GetRoundData(roundId_) ==
    /\ feed.reverted = "none"
    /\ reading' = IF roundId_ \notin 1..Len(rounds.data)
                  THEN [call |-> "getRoundData", arg |-> roundId_,
                        reverted |-> "underlying"]
                  ELSE Scaled("getRoundData", roundId_, rounds.data[roundId_])
    /\ UNCHANGED <<feed, rounds, composerVars, deployVars, codecVars>>

FeedNext ==
    \/ \E price \in Prices : UnderlyingAnswers(price)
    \/ LatestRoundData
    \/ \E roundId_ \in 1..(MaxRounds + 1) : GetRoundData(roundId_)

FeedIdle ==
    /\ feed = << >>
    /\ rounds = << >>
    /\ reading = << >>

ContractsIdle == FeedIdle

(***************************************************************************)
(* The specifications: each runs one component and holds the others idle.  *)
(***************************************************************************)
DeployStart == DeployInit /\ ComposerIdle /\ CodecIdle /\ ContractsIdle

DeploySpec == DeployStart /\ [][DeployNext]_vars

Init == ComposerInit /\ DeployIdle /\ CodecIdle /\ ContractsIdle

Spec == Init /\ [][ComposerNext]_vars

CodecStart == CodecInit /\ ComposerIdle /\ DeployIdle /\ ContractsIdle

CodecSpec == CodecStart /\ [][CodecNext]_vars

ConfigurationStart ==
    ConfigurationInit /\ ComposerIdle /\ DeployIdle /\ ContractsIdle

ConfigurationSpec == ConfigurationStart /\ [][ConfigurationNext]_vars

FeedStart ==
    FeedInit /\ ComposerIdle /\ DeployIdle /\ CodecIdle

FeedSpec == FeedStart /\ [][FeedNext]_vars

(***************************************************************************)
(* Properties of the composer.                                             *)
(***************************************************************************)
RECURSIVE Ascending(_)
\* The members of S by name, ascending.
Ascending(S) ==
    IF S = {} THEN << >>
    ELSE LET m == CHOOSE x \in S : \A y \in S : x <= y
         IN  <<m>> \o Ascending(S \ {m})

IsPrefix(p, q) == Len(p) <= Len(q) /\ p = SubSeq(q, 1, Len(p))

\* The migrations a run called op on, in the order of the calls.
RECURSIVE Called(_, _)
Called(calls, op) ==
    IF calls = << >> THEN << >>
    ELSE LET rest == Called(SubSeq(calls, 1, Len(calls) - 1), op)
             last == calls[Len(calls)]
         IN  IF last.op = op THEN Append(rest, last.unit) ELSE rest

Subset(s) == Elems(migrationList(s))

Healthy(s) == \A m \in Subset(s) : faults[m] = "ok"

\* The run was rejected by its context: getGovernor or getProposer threw.
ContextRejected(run) ==
    /\ run.pc = "rejected"
    /\ run.rejection.error \in {"GetGovernorError", "GetProposerError"}

\* The run has not reached the sort, or never will.
BeforeSort(run) ==
    run.pc \in {"getGovernor", "getProposer"} \/ ContextRejected(run)

\* C1: for a catalog of N distinct migrations solve returns exactly 2^N
\* solutions; their subsets are pairwise different, are all the subsets of
\* the catalog, and the empty subset is among them (stated of what solve
\* returned, before any solution is applied).
C1_SubsetCompleteness ==
    (Solved /\ runs = << >>) =>
        /\ Len(solutions) = 2 ^ Len(catalog)
        /\ \A a, b \in 1..Len(solutions) : a # b => Subset(a) # Subset(b)
        /\ \A a \in 1..Len(solutions) :
               Cardinality(Subset(a)) = Len(migrationList(a))
        /\ {Subset(a) : a \in 1..Len(solutions)} = SUBSET Elems(catalog)
        /\ \E a \in 1..Len(solutions) : migrationList(a) = << >>

C1_Witness == Solved /\ runs = << >> /\ Len(catalog) >= 2

\* C2: a solution calls prepare and enact on its migrations in the order
\* of the subset sorted by name ascending, whatever the order of the catalog
\* and the order the generator built the subset in.
C2_SequenceIsSortedByName ==
    \A r \in 1..Len(runs) :
        LET run == runs[r]
            order == Ascending(Subset(run.sol))
        IN  ~BeforeSort(run) =>
                /\ migrationList(run.sol) = order
                /\ IsPrefix(Called(run.calls, "prepare"), order)
                /\ IsPrefix(Called(run.calls, "enact"), order)
                /\ run.pc = "returned" =>
                       /\ Called(run.calls, "prepare") = order
                       /\ Called(run.calls, "enact") = order

\* A returned application of two migrations or more whose array the generator
\* had built in another order than by name.
C2_Witness ==
    \E r \in 1..Len(runs) :
        /\ runs[r].pc = "returned"
        /\ Len(runs[r].ctx) >= 2
        /\ LET generated == subsets(catalog, 0, << >>)
           IN  generated.mem[generated.yielded[runs[r].sol]]
                  # migrationList(runs[r].sol)

\* C3: when prepare or enact of a migration throws, no prepare and no enact
\* of a later migration of that scenario is called, and the application
\* ends rejected: it does not return the context.
C3_FailFast ==
    \A r \in 1..Len(runs) :
        LET run == runs[r]
        IN  /\ \A k \in 1..Len(run.calls) :
                   run.calls[k].outcome = "threw" =>
                       /\ k = Len(run.calls)
                       /\ run.pc = "rejected"
                       /\ \A j \in (run.i + 1)..Len(migrationList(run.sol)) :
                              \A c \in 1..Len(run.calls) :
                                  run.calls[c].unit # migrationList(run.sol)[j]
            /\ run.pc = "returned" =>
                   \A k \in 1..Len(run.calls) : run.calls[k].outcome = "ok"

\* A rejected application with migrations left in its sequence.
C3_Witness ==
    \E r \in 1..Len(runs) :
        /\ runs[r].pc = "rejected"
        /\ runs[r].calls # << >>
        /\ runs[r].i < Len(migrationList(runs[r].sol))

\* C4: a failure in one application stops no other application: an
\* application is rejected only by a throw of a call of its own (on its
\* context, before any migration is called, or on a migration of its
\* subset), an application whose subset has no throwing migration can
\* always go on until it has returned unless its own context throws, and
\* then it has called and enacted all of its migrations on its own context.
C4_ScenarioIsolation ==
    \A r \in 1..Len(runs) :
        LET run == runs[r]
        IN  /\ (run.pc = "rejected" /\ ~ContextRejected(run)) =>
                   /\ run.calls # << >>
                   /\ run.calls[Len(run.calls)].outcome = "threw"
                   /\ faults[run.calls[Len(run.calls)].unit]
                          = run.calls[Len(run.calls)].op
            /\ ContextRejected(run) => run.calls = << >>
            /\ Elems(run.ctx) \subseteq Subset(run.sol)
            /\ Healthy(run.sol) =>
                   /\ run.pc = "rejected" => ContextRejected(run)
                   /\ run.pc \notin {"returned", "rejected"} =>
                          ENABLED (\/ GetGovernorReturns(r)
                                   \/ GetProposerReturns(r)
                                   \/ PrepareReturns(r)
                                   \/ EnactReturns(r))
                   /\ run.pc = "returned" =>
                          /\ run.ctx = Ascending(Subset(run.sol))
                          /\ Len(run.calls) = 2 * Len(run.ctx)

\* One application rejected, and another, of a subset without the migration
\* that threw, returned with its migrations enacted.
C4_Witness ==
    \E r, q \in 1..Len(runs) :
        /\ runs[r].pc = "rejected"
        /\ runs[r].calls # << >>
        /\ runs[q].pc = "returned"
        /\ runs[q].ctx # << >>
        /\ runs[r].calls[Len(runs[r].calls)].unit \notin Subset(runs[q].sol)

\* C5: the failure an application is rejected with when prepare or enact of
\* a migration threw carries the name of the migration whose call threw and
\* the subset under test, with the error.
C5_FailureNamesMigration ==
    \A r \in 1..Len(runs) :
        LET run == runs[r]
        IN  (run.pc = "rejected" /\ run.calls # << >>) =>
                /\ run.rejection.error \in {"PrepareError", "EnactError"}
                /\ run.rejection.migration = {run.calls[Len(run.calls)].unit}
                /\ run.rejection.subset = Subset(run.sol)

(***************************************************************************)
(* Properties of the deploy script and its guarded actions.                *)
(***************************************************************************)
Last(seq) == seq[Len(seq)]

\* Every run of deploy so far, the current one last: its events, how it
\* ended ("running" when it has not), and the error it was rejected with.
DeployRuns ==
    [k \in 1..(Len(dhist) + 1) |->
        IF k <= Len(dhist)
        THEN [events |-> dhist[k].events, outcome |-> dhist[k].outcome,
              error |-> dhist[k].error]
        ELSE [events |-> dlog,
              outcome |-> IF Running \/ dpc.phase = "idle" THEN "running"
                          ELSE dpc.phase,
              error |-> dpc.error]]

IsEffectEvent(e) == e.guard \in Guards /\ e.op # "condition"

\* How many times transaction op was mined, over all runs.
TimesApplied(op) == chain.mined[op]

\* A step took place and logged event e.
Logged(e) == dlog' = Append(dlog, e)

\* C6: when a guarded action's precondition evaluates to false the effect is
\* not called, the target is left as it was and the call returns without
\* error (the run goes on with the next line); a call of an effect is
\* started only by a precondition that has just evaluated to true, on the
\* target as it was then.
C6_GuardSkipsWhenSatisfied ==
    [][/\ \A g \in Guards :
            Logged(Event(g, "condition", "false")) =>
                /\ ~Precondition(g, chain)
                /\ chain' = chain
                /\ dpc' = Line(dpc.line + 1)
                /\ dpc'.phase # "rejected"
       /\ (dpc'.phase = "effect" /\ dpc'.k = 1 /\ dpc # dpc') =>
            /\ dpc.phase = "condition"
            /\ dpc'.line = dpc.line
            /\ Precondition(deploy[dpc.line], chain)
            /\ Logged(Event(deploy[dpc.line], "condition", "true"))
            /\ chain' = chain
       /\ (dlog' # dlog /\ dlog' # << >> /\ IsEffectEvent(Last(dlog'))) =>
            dpc.phase = "effect"
      ]_vars

\* A run in which the COMP guard found its precondition false and the run
\* went on.
C6_Witness ==
    \E i \in 1..Len(dlog) :
        /\ dlog[i] = Event("comp", "condition", "false")
        /\ i < Len(dlog)

\* C7: for each of the five guarded actions, once the effect has gone
\* through after a true precondition, the precondition is false; and a run
\* of deploy that returns right after a run that returned applies no effect
\* and leaves the target as that run left it.
C7_IdempotenceClosure ==
    /\ \A g \in Guards :
          (dlog # << >> /\ Last(dlog) = Event(g, Last(Effect(g)), "ok")) =>
              ~Precondition(g, chain)
    /\ (dpc.phase = "returned" /\ dhist # << >>
           /\ Last(dhist).outcome = "returned") =>
          /\ chain = Last(dhist).chain
          /\ \A i \in 1..Len(dlog) : ~IsEffectEvent(dlog[i])
          /\ \A g \in Guards :
                \E i \in 1..Len(dlog) : dlog[i] = Event(g, "condition", "false")

\* Two runs in succession that returned, the first having applied all five
\* effects.
C7_Witness ==
    /\ dpc.phase = "returned"
    /\ dhist # << >>
    /\ Last(dhist).outcome = "returned"
    /\ \A g \in Guards :
          \E i \in 1..Len(Last(dhist).events) :
              Last(dhist).events[i] = Event(g, Last(Effect(g)), "ok")

GoalState(c) ==
    /\ c.usdcAdmin = "usdcProxyAdmin"
    /\ c.usdcInitialized
    /\ c.comp > 0
    /\ c.weth >= WethThreshold
    /\ c.usdc > 0
    /\ c.wbtc > 0

ValueMoving == {"initialize", "transfer", "deposit", "mintUsdc", "mintWbtc"}

\* C8: over any sequence of runs of deploy, each of which may end at any
\* awaited call, a run that returns leaves the target in the goal state, and
\* no value-moving call (USDC initialize, COMP transfer, WETH deposit, USDC
\* mint, WBTC mint) has gone through more than once.
C8_RerunSafety ==
    /\ dpc.phase = "returned" => GoalState(chain)
    /\ \A op \in ValueMoving : TimesApplied(op) <= 1

\* The half of C8 that holds: no value-moving transaction is mined twice,
\* whichever awaited calls ended the runs before.
NoValueMovedTwice == \A op \in ValueMoving : TimesApplied(op) <= 1

\* What breaks the other half: once changeAdmin was mined in a run that
\* ended before initialize was, the admin guard's precondition is false in
\* every later run and initialize is never sent again.
InitializeNeverSentAgain ==
    \A k \in 1..Len(dhist) :
        (dhist[k].chain.usdcAdmin = "usdcProxyAdmin"
            /\ ~dhist[k].chain.usdcInitialized) =>
            /\ ~chain.usdcInitialized
            /\ \A i \in 1..Len(dlog) : dlog[i].op # "initialize"

\* C9: a guarded action whose precondition is true calls its effect once:
\* the effect's awaited calls follow the precondition in the order written,
\* each at most once in a run; the next line of deploy is reached only after
\* the effect's last call went through; a throwing call ends the run,
\* rejected with that call's error, and nothing follows it.
C9_EffectOnceNoRetry ==
    \A k \in 1..Len(DeployRuns) :
        LET run == DeployRuns[k]
            ev == run.events
        IN  /\ \A i \in 1..Len(ev) :
                   /\ (ev[i].op = "condition" /\ ev[i].result = "true") =>
                          \A j \in 1..Len(Effect(ev[i].guard)) :
                              /\ i + j <= Len(ev) =>
                                    /\ ev[i + j].guard = ev[i].guard
                                    /\ ev[i + j].op = Effect(ev[i].guard)[j]
                              /\ i + j < Len(ev) => ev[i + j].result = "ok"
                   /\ ev[i].result = "threw" =>
                          /\ i = Len(ev)
                          /\ run.outcome = "rejected"
                          /\ run.error = ev[i].op
                   /\ IsEffectEvent(ev[i]) =>
                          \A j \in 1..Len(ev) : ev[j].op = ev[i].op => j = i
            /\ run.outcome = "rejected" =>
                   /\ ev # << >>
                   /\ Last(ev).result = "threw"

\* A run rejected by a throwing call of an effect that was not the effect's
\* first call.
C9_Witness ==
    /\ dpc.phase = "rejected"
    /\ dpc.error = "mintUsdc"
    /\ Last(dlog) = Event("usdcMint", "mintUsdc", "threw")

\* C10: when the evaluation of a precondition throws, the run is rejected
\* with that failure: the effect is not called, the target is left as it
\* was, and the run neither goes on to the effect nor to the next line.
C10_ConditionFailureSurfaced ==
    /\ [](\A k \in 1..Len(DeployRuns) :
            LET run == DeployRuns[k]
            IN  \A i \in 1..Len(run.events) :
                    (run.events[i].op = "condition"
                        /\ run.events[i].result = "threw") =>
                        /\ i = Len(run.events)
                        /\ run.outcome = "rejected"
                        /\ run.error = "condition")
    /\ [][\A g \in Guards :
            Logged(Event(g, "condition", "threw")) =>
                /\ chain' = chain
                /\ dpc'.phase = "rejected"
                /\ dpc'.error = "condition"
                /\ dpc'.line = dpc.line]_vars

\* A run rejected by the USDC mint guard's precondition, with the effects of
\* the earlier guards applied and the mint not.
C10_Witness ==
    /\ dpc.phase = "rejected"
    /\ dpc.error = "condition"
    /\ Last(dlog) = Event("usdcMint", "condition", "threw")
    /\ chain.weth >= WethThreshold
    /\ chain.usdc = 0

(***************************************************************************)
(* Properties of the configuration codec.                                  *)
(***************************************************************************)
\* The positions of the bits set in x, bit 0 the least significant.
BitsOf(x) ==
    {i \in 0..(8 * Len(x) - 1) : (x[i \div 8 + 1] \div (2 ^ (i % 8))) % 2 = 1}

\* The bits of x moved up by offset positions.
Moved(x, offset) == {i + offset : i \in BitsOf(x)}

Returned == packed # NotPacked /\ packed.threw = "none"

\* The literal denotes a whole number; the whole number it denotes.
IsWholeLiteral(l) == l.exp >= 0 \/ l.digits % (10 ^ (-l.exp)) = 0

WholeOf(l) ==
    IF l.exp >= 0 THEN l.digits * 10 ^ l.exp ELSE l.digits \div 10 ^ (-l.exp)

\* The literal denotes a finite Number.
IsFiniteLiteral(l) == ~IsInfinite(NumberOf(l))

\* The configurations whose decimals are a whole number not below zero and
\* whose supply cap is finite: the conversions of decimals and of the supply
\* cap to bigints throw for no other.
Convertible(c) ==
    /\ IsWholeLiteral(c.decimals)
    /\ ~(c.decimals.neg /\ c.decimals.digits > 0)
    /\ IsFiniteLiteral(c.supplyCap)

\* The asset address and the supply cap are not below zero.
NotNegative(c) ==
    /\ ~StringToBigInt(c.assetAddress).value.neg
    /\ ~floor(NumberOf(c.supplyCap)).value.neg

\* floor(n * 1e18) / 1e14 for the factor written as literal l.
Descaled(l) == Div(percentage(NumberOf(l)).value.mag, Pow10(14))

\* floor(supplyCap) / 10^decimals.
ScaledSupplyCap ==
    Div(floor(NumberOf(config.supplyCap)).value.mag,
        Pow10(WholeOf(config.decimals)))

\* C11: the words packAssetConfig returns are the bitwise OR of its fields
\* at their offsets: in word_a the asset address, floor(borrowCF*1e18)/1e14
\* at bit 160, floor(liquidateCF*1e18)/1e14 at bit 176 and
\* floor(liquidationFactor*1e18)/1e14 at bit 192; in word_b the price feed
\* address, decimals at bit 160 and floor(supplyCap)/10^decimals at bit 168,
\* the divisions truncating (stated of the configurations whose asset
\* address and supply cap are not below zero, where the words are not
\* below zero and have bits to speak of).
C11_PackingRule ==
    (Returned /\ NotNegative(config)) =>
        /\ ~packed.word_a.neg
        /\ ~packed.word_b.neg
        /\ BitsOf(packed.word_a.mag) =
              BitsOf(StringToBigInt(config.assetAddress).value.mag)
              \cup Moved(Descaled(config.borrowCF), 160)
              \cup Moved(Descaled(config.liquidateCF), 176)
              \cup Moved(Descaled(config.liquidationFactor), 192)
        /\ BitsOf(packed.word_b.mag) =
              BitsOf(StringToBigInt(config.priceFeed).value.mag)
              \cup Moved(BigInt(WholeOf(config.decimals)), 160)
              \cup Moved(ScaledSupplyCap, 168)

\* A packed configuration whose three factors differ, one of them (0.57)
\* scaled by a product the double multiplication rounds down, and whose
\* supply cap loses a fraction of a token.
C11_Witness ==
    /\ Returned
    /\ config.borrowCF = Lit(FALSE, 57, -2)
    /\ Descaled(config.borrowCF) = BigInt(5699)
    /\ config.supplyCap = Lit(FALSE, 35, 22)
    /\ config.decimals = Lit(FALSE, 18, 0)
    /\ isAddress(config.assetAddress)
    /\ BitsOf(packed.word_a.mag) \cap 160..207 # {}

\* C12: in the words packAssetConfig returns every field lies inside the
\* 256-bit word and in its own bit range: each address is below 2^160, each
\* descaled factor below 2^16, decimals below 2^8, the scaled supply cap
\* fits bits 168..255, and each word is not below zero and below 2^256.
C12_FieldsWithinTheirRanges ==
    Returned =>
        /\ NotNegative(config)
        /\ BitLen(StringToBigInt(config.assetAddress).value.mag) <= 160
        /\ BitLen(StringToBigInt(config.priceFeed).value.mag) <= 160
        /\ BitLen(Descaled(config.borrowCF)) <= 16
        /\ BitLen(Descaled(config.liquidateCF)) <= 16
        /\ BitLen(Descaled(config.liquidationFactor)) <= 16
        /\ WholeOf(config.decimals) < 2 ^ 8
        /\ BitLen(ScaledSupplyCap) <= 256 - 168
        /\ ~packed.word_a.neg /\ BitLen(packed.word_a.mag) <= 256
        /\ ~packed.word_b.neg /\ BitLen(packed.word_b.mag) <= 256

\* What a literal says about its value's place relative to the range [0, 1].
AboveOne(l) ==
    /\ ~l.neg
    /\ IF l.exp >= 0 THEN l.digits > 1 \/ (l.digits = 1 /\ l.exp > 0)
       ELSE l.digits > 10 ^ (-l.exp)

BelowZero(l) == l.neg /\ l.digits > 0

OutOfRange(l) == AboveOne(l) \/ BelowZero(l)

FactorsOf(c) == <<c.borrowCF, c.liquidateCF, c.liquidationFactor>>

\* The errors percentage throws for a value out of range.
OutOfRangeErrors == {"percentage greater than 100%", "percentage less than 0%"}

\* C13 as claimed: when a percentage field is above 1.0 or below 0.0,
\* packAssetConfig fails with an out-of-range error and returns no words.
C13_OutOfRangeError ==
    (packed # NotPacked /\ \E i \in 1..3 : OutOfRange(FactorsOf(config)[i])) =>
        /\ packed.threw \in OutOfRangeErrors
        /\ packed = Thrown(packed.threw)

\* C13 as amended: when a percentage field is above 1.0 or below 0.0,
\* packAssetConfig fails and returns no words: the value is never clamped.
\* The failure is the out-of-range error of the first such field unless
\* address(priceFeed) or BigInt(decimals), which run before the factors
\* are checked, throws first (a malformed price feed address, decimals that
\* are no whole number): the call then fails with that error.
C13_OutOfRangeRejected ==
    (packed # NotPacked /\ \E i \in 1..3 : OutOfRange(FactorsOf(config)[i])) =>
        /\ packed.threw # "none"
        /\ packed = Thrown(packed.threw)
        /\ ~isAddress(config.priceFeed) => packed.threw = "expected address"
        /\ (/\ isAddress(config.priceFeed)
            /\ ~(IsWholeLiteral(config.decimals)
                    /\ IsFiniteLiteral(config.decimals))) =>
              packed.threw = "RangeError"
        /\ (/\ isAddress(config.priceFeed)
            /\ IsWholeLiteral(config.decimals)
            /\ IsFiniteLiteral(config.decimals)) =>
              LET first == CHOOSE i \in 1..3 :
                              /\ OutOfRange(FactorsOf(config)[i])
                              /\ \A j \in 1..(i - 1) :
                                    ~OutOfRange(FactorsOf(config)[j])
              IN  packed.threw =
                      IF AboveOne(FactorsOf(config)[first])
                      THEN "percentage greater than 100%"
                      ELSE "percentage less than 0%"

\* A configuration whose liquidateCF is below zero, every other input
\* well-formed, rejected for it.
C13_Witness ==
    /\ packed.threw = "percentage less than 0%"
    /\ BelowZero(config.liquidateCF)
    /\ isAddress(config.assetAddress)
    /\ isAddress(config.priceFeed)

\* A factor above 1.0 beside a malformed price feed address: the call
\* fails with the address error.
OutOfRangeBehindAddressError ==
    /\ packed.threw = "expected address"
    /\ \E i \in 1..3 : AboveOne(FactorsOf(config)[i])

InRange(c) == \A i \in 1..3 : ~OutOfRange(FactorsOf(c)[i])

\* C14: packAssetConfig fails with the invalid-address error when either
\* address-valued input, the asset address or the price feed address, is a
\* malformed address string.
C14_MalformedAddressRejected ==
    (/\ packed # NotPacked
     /\ InRange(config)
     /\ Convertible(config)
     /\ ~isAddress(config.assetAddress) \/ ~isAddress(config.priceFeed)) =>
        packed.threw = "expected address"

\* A malformed price feed address is rejected with the invalid-address
\* error, whatever the other inputs are.
PriceFeedAddressChecked ==
    (packed # NotPacked /\ ~isAddress(config.priceFeed)) =>
        packed.threw = "expected address"

\* The field of width bits at offset in word (a word not below zero).
Field(word, offset, width) == LowBits(Shr(word.mag, offset), width)

\* The configurations whose fields are in their domains: well-formed
\* addresses, factors in [0, 1], decimals a whole number and the supply cap
\* in whole tokens not below zero and within their fields' widths.
Valid(c) ==
    /\ isAddress(c.assetAddress)
    /\ isAddress(c.priceFeed)
    /\ InRange(c)
    /\ Convertible(c)
    /\ WholeOf(c.decimals) < 2 ^ 8
    /\ ~floor(NumberOf(c.supplyCap)).value.neg
    /\ BitLen(Div(floor(NumberOf(c.supplyCap)).value.mag,
                  Pow10(WholeOf(c.decimals)))) <= 88

\* The number of binary places of the Number n.
Places(n) == IF n.e < 0 THEN -n.e ELSE 0

\* The value of the Number n (not below zero) in units of 1/unit, times
\* 2^Places(n): a whole number.
OnScale(n, unit) == Shl(Mul(n.m, unit), n.e + Places(n))

\* The decoded whole number is at most `above` more than the value of the
\* Number n in units of 1/unit, and less than `below` less.
Within(n, unit, decoded, below, above) ==
    /\ Cmp(Shl(decoded, Places(n)),
           Add(OnScale(n, unit), Shl(above, Places(n)))) <= 0
    /\ Cmp(OnScale(n, unit), Shl(Add(decoded, below), Places(n))) < 0

\* The factor read back from word_a and rescaled to the 10^18 scale.
DecodedFactor(i) == Mul(Field(packed.word_a, 144 + 16 * i, 16), Pow10(14))

\* The supply cap read back from word_b and rescaled by 10^decimals.
DecodedSupplyCap ==
    Mul(Field(packed.word_b, 168, 88), Pow10(WholeOf(config.decimals)))

\* The addresses and decimals read back are the ones packed.
ExactFieldsReadBack ==
    /\ packed.threw = "none"
    /\ ~packed.word_a.neg
    /\ ~packed.word_b.neg
    /\ Field(packed.word_a, 0, 160)
          = StringToBigInt(config.assetAddress).value.mag
    /\ Field(packed.word_b, 0, 160)
          = StringToBigInt(config.priceFeed).value.mag
    /\ Field(packed.word_b, 160, 8) = BigInt(WholeOf(config.decimals))

\* C15 as claimed: for a valid configuration, the fields read back from
\* the words at their offsets reproduce both addresses and decimals
\* exactly, each factor, rescaled by 10^14, within 10^14 of the factor
\* given on the 10^18 scale and never above it, and the supply cap,
\* rescaled by 10^decimals, within one whole token (10^decimals) of the
\* supply cap given and never above it.
C15_RoundTripNeverAbove ==
    (packed # NotPacked /\ Valid(config)) =>
        /\ ExactFieldsReadBack
        /\ \A i \in 1..3 :
              Within(NumberOf(FactorsOf(config)[i]), Pow10(18),
                     DecodedFactor(i), Add(Pow10(14), <<1>>), << >>)
        /\ Within(NumberOf(config.supplyCap), <<1>>, DecodedSupplyCap,
                  Add(Pow10(WholeOf(config.decimals)), <<1>>), << >>)

\* What the rounding of the double product n * 1e18 can add to a factor
\* below 2^60 / 10^18: half the distance of two Numbers there.
ProductRounding == BigInt(64)

\* C15 as amended: for a valid configuration, the fields read back
\* reproduce both addresses and decimals exactly; each factor, rescaled by
\* 10^14, is less than 10^14 below the factor given on the 10^18 scale and
\* at most 64 above it (the product n * 1e18 is rounded to a Number before
\* the floor is taken); the supply cap, rescaled by 10^decimals, is not
\* above the supply cap given and less than one whole token below it.
C15_RoundTrip ==
    (packed # NotPacked /\ Valid(config)) =>
        /\ ExactFieldsReadBack
        /\ \A i \in 1..3 :
              Within(NumberOf(FactorsOf(config)[i]), Pow10(18),
                     DecodedFactor(i), Pow10(14), ProductRounding)
        /\ Within(NumberOf(config.supplyCap), <<1>>, DecodedSupplyCap,
                  Pow10(WholeOf(config.decimals)), << >>)

\* A valid configuration packed, with a factor (0.57) read back almost
\* 10^14 below the Number given, a factor (0.85) read back above the Number
\* given, and a supply cap that lost part of a token.
C15_Witness ==
    /\ Returned
    /\ Valid(config)
    /\ config.borrowCF = Lit(FALSE, 57, -2)
    /\ Field(packed.word_a, 160, 16) = BigInt(5699)
    /\ config.liquidateCF = Lit(FALSE, 85, -2)
    /\ Field(packed.word_a, 176, 16) = BigInt(8500)
    /\ ~Within(NumberOf(config.liquidateCF), Pow10(18), DecodedFactor(2),
               Pow10(14), << >>)
    /\ config.decimals = Lit(FALSE, 18, 0)
    /\ DecodedSupplyCap # number(NumberOf(config.supplyCap)).value.mag
    /\ Field(packed.word_b, 168, 88) # << >>

(***************************************************************************)
(* Properties of one application of a solution.                            *)
(***************************************************************************)
\* C17: within one application, a unit's prepare has returned before its
\* enact is called, enact receives exactly the artifact that unit's prepare
\* returned in this application, and the next unit's prepare is not called
\* before the unit's enact has returned: calls alternate prepare and enact,
\* unit by unit, and only the last call can be pending.
C17_PrepareThenEnact ==
    \A r \in 1..Len(runs) :
        LET calls == runs[r].calls
        IN  \A j \in 1..Len(calls) :
                /\ j < Len(calls) => calls[j].outcome = "ok"
                /\ j % 2 = 1 =>
                      /\ calls[j].op = "prepare"
                      /\ \A k \in 1..(j - 1) : calls[k].unit # calls[j].unit
                /\ j % 2 = 0 =>
                      /\ calls[j].op = "enact"
                      /\ calls[j].unit = calls[j - 1].unit
                      /\ calls[j - 1].outcome = "ok"
                      /\ calls[j].artifact = calls[j - 1].artifact
                      /\ calls[j].artifact = ArtifactOf(r, calls[j].unit)

\* Two applications that both took two units through prepare and enact,
\* each unit's artifact its own.
C17_Witness ==
    /\ Len(runs) = 2
    /\ \A r \in 1..2 :
          /\ runs[r].pc = "returned"
          /\ Len(runs[r].calls) = 4
          /\ runs[r].calls[2].artifact # runs[r].calls[4].artifact
    /\ runs[1].calls[2].artifact # runs[2].calls[2].artifact

\* C18: solve calls no prepare and no enact and changes no context, calls
\* are made only by an application of a solution, once its context gave
\* the governor and the proposer, and the application of the empty subset's
\* solution calls nothing and, unless its context throws, returns its
\* context as it received it.
C18_SolveIsInert ==
    /\ [](\A r \in 1..Len(runs) :
            /\ Subset(runs[r].sol) = {} =>
                  /\ runs[r].calls = << >>
                  /\ runs[r].ctx = << >>
                  /\ runs[r].pc \in {"getGovernor", "getProposer",
                                     "returned", "rejected"}
                  /\ runs[r].pc = "rejected" => ContextRejected(runs[r])
            /\ BeforeSort(runs[r]) => runs[r].calls = << >>)
    /\ [][solutions' # solutions => runs = << >> /\ runs' = << >>]_vars
    /\ [][\A r \in 1..Len(runs) :
            (/\ Subset(runs[r].sol) = {}
             /\ runs[r].pc = "getProposer"
             /\ runs'[r] # runs[r]
             /\ ~ContextRejected(runs'[r])) =>
                runs'[r] = [runs[r] EXCEPT !.pc = "returned"]]_vars

\* The empty subset's solution applied and returned with nothing called,
\* beside an application that called prepare and enact.
C18_Witness ==
    /\ Solved
    /\ \E r \in 1..Len(runs) :
          /\ Subset(runs[r].sol) = {}
          /\ runs[r].pc = "returned"
          /\ runs[r].calls = << >>
    /\ \E r \in 1..Len(runs) : Len(runs[r].calls) >= 2

\* The steps of the goerli/usdc deployment the order is stated for, in the
\* order stated.
StatedOrder ==
    <<"usdc", "deployComet", "deployBulker", "comp",
      "weth", "usdcMint", "wbtcMint">>

\* The step an event belongs to: its guarded action, or the awaited call.
StepOf(e) == IF e.guard = "none" THEN e.op ELSE e.guard

PlaceOf(step) == CHOOSE i \in 1..Len(StatedOrder) : StatedOrder[i] = step

IsStated(e) == \E i \in 1..Len(StatedOrder) : StatedOrder[i] = StepOf(e)

\* The event that completes its step: an awaited call that returned, a
\* precondition that returned false, or the last call of an effect.
Completes(e) ==
    \/ e.guard = "none" /\ e.result = "ok"
    \/ e.op = "condition" /\ e.result = "false"
    \/ /\ e.guard \in Guards
       /\ e.op = Last(Effect(e.guard))
       /\ e.result = "ok"

\* C19: a run of deploy goes through the USDC admin/initialize guard,
\* deployComet, the bulker's deployment, the COMP guard, and then the WETH,
\* USDC and WBTC mint guards, in this order from the first: a step begins
\* only when the step before it has completed, no step is returned to, every
\* awaited call is made at its place in the script, after as many steps
\* have completed as are written before it, and nothing is executed in a
\* run after a step that threw.
C19_WrittenOrder ==
    LET stated == SelectSeq(dlog, IsStated)
    IN  /\ stated # << >> => PlaceOf(StepOf(stated[1])) = 1
        /\ \A i \in 1..(Len(stated) - 1) :
               StepOf(stated[i + 1]) # StepOf(stated[i]) =>
                   /\ Completes(stated[i])
                   /\ PlaceOf(StepOf(stated[i + 1]))
                         = PlaceOf(StepOf(stated[i])) + 1
        /\ \A i \in 1..Len(dlog) :
               StepOf(dlog[i]) =
                   deploy[1 + Cardinality({j \in 1..(i - 1) :
                                              Completes(dlog[j])})]
        /\ \A i \in 1..Len(dlog) : dlog[i].result = "threw" => i = Len(dlog)
        /\ dpc.phase = "rejected" =>
               dlog # << >> /\ Last(dlog).result = "threw"
        /\ dpc.phase = "returned" =>
               /\ stated # << >>
               /\ StepOf(Last(stated)) = "wbtcMint"
               /\ Completes(Last(stated))

\* A run that returned after all seven steps, the COMP guard's effect
\* among them, following a run that deployComet's failure ended before the
\* bulker was deployed.
C19_Witness ==
    /\ dpc.phase = "returned"
    /\ \E i \in 1..Len(dlog) : dlog[i] = Event("comp", "traceCompSigner", "ok")
    /\ \E i \in 1..Len(dlog) : dlog[i].guard = "wbtcMint"
    /\ \E h \in 1..Len(dhist) :
          /\ dhist[h].outcome = "rejected"
          /\ dhist[h].error = "deployComet"
          /\ Last(dhist[h].events) = Event("none", "deployComet", "threw")

\* The underlying feed returned a round to the call `reading` is of.
UnderlyingReturned ==
    \/ reading.call = "latestRoundData" /\ rounds.data # << >>
    \/ reading.call = "getRoundData" /\ reading.arg \in 1..Len(rounds.data)

\* The round it returned.
UnderlyingRound ==
    IF reading.call = "latestRoundData" THEN Last(rounds.data)
    ELSE rounds.data[reading.arg]

\* answer is price / 10^k rounded toward zero.
IsTruncatedQuotient(answer, price, k) ==
    /\ Cmp(Mul(answer.mag, Pow10(k)), price.mag) <= 0
    /\ Cmp(price.mag, Mul(Add(answer.mag, <<1>>), Pow10(k))) < 0
    /\ answer.neg = (price.neg /\ answer.mag # << >>)

\* C20: with u the underlying feed's decimals, latestRoundData and
\* getRoundData return answer = price * 10^(decimals - u) when
\* u < decimals, and price / 10^(u - decimals) rounded toward zero
\* otherwise, so the price itself when the decimals are equal; roundId,
\* startedAt, updatedAt and answeredInRound are the underlying feed's; and
\* when the product is no int256 the call reverts.
C20_ScaledAnswer ==
    UnderlyingReturned =>
        LET u == rounds.decimals
            price == UnderlyingRound.price
            product == Int256(price.neg,
                              Mul(price.mag, Pow10(feed.decimals - u)))
            passedThrough ==
                /\ reading.roundId = UnderlyingRound.roundId
                /\ reading.startedAt = UnderlyingRound.startedAt
                /\ reading.updatedAt = UnderlyingRound.updatedAt
                /\ reading.answeredInRound = UnderlyingRound.answeredInRound
        IN  /\ (u < feed.decimals /\ FitsInt256(product)) =>
                   /\ reading.reverted = "none"
                   /\ reading.answer = product
                   /\ passedThrough
            /\ (u < feed.decimals /\ ~FitsInt256(product)) =>
                   reading.reverted = "Panic(0x11)"
            /\ u >= feed.decimals =>
                   /\ reading.reverted = "none"
                   /\ IsTruncatedQuotient(reading.answer, price,
                                          u - feed.decimals)
                   /\ passedThrough
            /\ u = feed.decimals => reading.answer = price

\* A feed of 6 decimals over one of 8, asked for the first of two rounds:
\* -199999999999 is returned as -1999999999.
C20_Witness ==
    /\ feed.reverted = "none"
    /\ feed.decimals = 6
    /\ rounds.decimals = 8
    /\ Len(rounds.data) = 2
    /\ rounds.data[1].price
          = Int256(TRUE, Sub(MulSmall(Pow10(11), 2), <<1>>))
    /\ rounds.data[2].price # rounds.data[1].price
    /\ reading.call = "getRoundData"
    /\ reading.arg = 1
    /\ reading.reverted = "none"
    /\ reading.answer = Int256(TRUE, BigInt(1999999999))
    /\ reading.startedAt = 1000

\* An upscaled answer, and an upscaling that reverted.
UpscaledAnswerRead ==
    /\ reading.call = "latestRoundData"
    /\ feed.decimals = 18
    /\ reading.reverted = "none"
    /\ reading.answer = Int256(TRUE, Sub(MulSmall(Pow10(21), 2), Pow10(10)))

UpscalingReverted ==
    /\ reading.call = "getRoundData"
    /\ feed.decimals = 18
    /\ reading.reverted = "Panic(0x11)"
    /\ UnderlyingRound.price.mag = Add(Div(Int256Max, Pow10(10)), <<1>>)

\* The array solution s captured, as the generator left it.
Generated(s) ==
    LET generated == subsets(catalog, 0, << >>)
    IN  generated.mem[generated.yielded[s]]

\* C21: no two solutions of one solve capture the same array; a step that
\* changes an array (the in-place sort of an application) changes the array
\* of that application's solution only, and of that array the order, never
\* the membership; and the applications of one solution, however many and
\* however interleaved, make the same calls on the same migrations in the
\* same order, and return with the solution's migrations enacted in
\* ascending order of name.
C21_NoSharedSubsetState ==
    /\ [](\A a, b \in 1..Len(solutions) :
            a # b => solutions[a] # solutions[b])
    /\ [][(Solved /\ heap' # heap) =>
            \E r \in 1..Len(runs) :
                /\ runs'[r] # runs[r]
                /\ \A s \in 1..Len(solutions) :
                       /\ Elems(heap'[solutions[s]]) = Subset(s)
                       /\ s # runs[r].sol =>
                              heap'[solutions[s]] = migrationList(s)]_vars
    /\ [](\A r \in 1..Len(runs) :
            /\ runs[r].pc = "returned" =>
                   runs[r].ctx = Ascending(Subset(runs[r].sol))
            /\ \A q \in (r + 1)..Len(runs) :
                   runs[q].sol = runs[r].sol =>
                       \A k \in 1..Len(runs[r].calls) :
                           k <= Len(runs[q].calls) =>
                               /\ runs[q].calls[k].op = runs[r].calls[k].op
                               /\ runs[q].calls[k].unit
                                     = runs[r].calls[k].unit)

\* Two applications of one solution in flight, at different places of the
\* loop over an array of two migrations that the generator had left in
\* another order than by name.
C21_Witness ==
    /\ Len(runs) = 2
    /\ runs[1].sol = runs[2].sol
    /\ Len(Generated(runs[1].sol)) = 2
    /\ Generated(runs[1].sol) # migrationList(runs[1].sol)
    /\ runs[1].pc = "prepare"
    /\ Len(runs[1].calls) = 1
    /\ runs[2].pc = "enact"
    /\ Len(runs[2].calls) = 4

Loaded == configuration # NotLoaded

\* reserveRate and the interest-rate parameters, in the order read.
RateLiterals ==
    <<networkConfiguration.reserveRate,
      networkConfiguration.rates.kink,
      networkConfiguration.rates.slopeLow,
      networkConfiguration.rates.slopeHigh,
      networkConfiguration.rates.base>>

RatesOutOfRange == {i \in 1..5 : OutOfRange(RateLiterals[i])}

\* The error percentage throws for a literal out of range.
RangeErrorOf(l) ==
    IF AboveOne(l) THEN "percentage greater than 100%"
    ELSE "percentage less than 0%"

\* What is read before the rates is well-formed.
PartiesFound ==
    /\ networkConfiguration.baseToken \in DOMAIN ContractMap
    /\ isAddress(networkConfiguration.baseTokenPriceFeed)
    /\ isAddress(networkConfiguration.governor)
    /\ isAddress(networkConfiguration.pauseGuardian)

\* Every asset has a contract and a configuration packAssetConfig accepts.
AssetsLoadable ==
    \A k \in 1..Len(networkConfiguration.assets) :
        LET asset == networkConfiguration.assets[k]
        IN  /\ asset.name \in DOMAIN ContractMap
            /\ isAddress(asset.config.priceFeed)
            /\ InRange(asset.config)
            /\ Convertible(asset.config)

\* result is the largest integer not above the Number the literal l denotes.
IsFloorOf(result, l) ==
    LET n == NumberOf(l)
    IN  IF n.e >= 0 THEN result = Signed(n.neg, Shl(n.m, n.e))
        ELSE IF ~n.neg \/ n.m = << >>
        THEN /\ ~result.neg
             /\ Cmp(Shl(result.mag, -n.e), n.m) <= 0
             /\ Cmp(n.m, Shl(Add(result.mag, <<1>>), -n.e)) < 0
        ELSE /\ result.neg
             /\ Cmp(Shl(Sub(result.mag, <<1>>), -n.e), n.m) < 0
             /\ Cmp(n.m, Shl(result.mag, -n.e)) <= 0

\* The plain-count fields: the literal read and the field returned.
CountsRead ==
    <<<<networkConfiguration.borrowMin, configuration.baseBorrowMin>>,
      <<networkConfiguration.storeFrontPriceFactor,
        configuration.storeFrontPriceFactor>>,
      <<networkConfiguration.targetReserves, configuration.targetReserves>>,
      <<networkConfiguration.tracking.indexScale,
        configuration.trackingIndexScale>>,
      <<networkConfiguration.tracking.baseSupplySpeed,
        configuration.baseTrackingSupplySpeed>>,
      <<networkConfiguration.tracking.baseBorrowSpeed,
        configuration.baseTrackingBorrowSpeed>>,
      <<networkConfiguration.tracking.baseMinForRewards,
        configuration.baseMinForRewards>>>>

\* The literals of the plain-count fields, in the order read: three before
\* the rates, the tracking values after them.
CountLiterals ==
    <<networkConfiguration.borrowMin,
      networkConfiguration.storeFrontPriceFactor,
      networkConfiguration.targetReserves,
      networkConfiguration.tracking.indexScale,
      networkConfiguration.tracking.baseSupplySpeed,
      networkConfiguration.tracking.baseBorrowSpeed,
      networkConfiguration.tracking.baseMinForRewards>>

CountsInfinite == {k \in 1..7 : ~IsFiniteLiteral(CountLiterals[k])}

\* C22: when reserveRate, kink, slopeLow, slopeHigh or base is above 1.0 or
\* below 0, getConfiguration fails and returns no configuration record,
\* with the error percentage throws for the first such field when what is
\* read before it is well-formed; the plain-count fields are floored and
\* never range-checked: whatever finite values they have, a configuration
\* whose other fields are acceptable is returned, with each count the floor
\* of the number read.
C22_RatesRangeChecked ==
    Loaded =>
        /\ RatesOutOfRange # {} =>
               /\ configuration.threw # "none"
               /\ DOMAIN configuration = {"threw"}
        /\ (PartiesFound /\ RatesOutOfRange # {}) =>
               LET first == CHOOSE i \in RatesOutOfRange :
                                \A j \in RatesOutOfRange : i <= j
               IN  (first = 1 \/ CountsInfinite \cap 1..3 = {}) =>
                       configuration.threw = RangeErrorOf(RateLiterals[first])
        /\ (/\ PartiesFound
            /\ RatesOutOfRange = {}
            /\ AssetsLoadable
            /\ CountsInfinite = {}) =>
               /\ configuration.threw = "none"
               /\ \A k \in 1..Len(CountsRead) :
                      IsFloorOf(CountsRead[k][2], CountsRead[k][1])

\* A count too large for a finite Number (1e309 in configuration.json) has
\* no floor: the load fails with the RangeError of the conversion.
InfiniteCountRejected ==
    (Loaded /\ PartiesFound /\ RatesOutOfRange = {} /\ CountsInfinite # {}) =>
        configuration = Failed("RangeError")

\* A configuration whose slopeHigh is 1.5 and whose other rates are in
\* range, rejected with the error of the asset percentages, its counts
\* being outside [0, 1] as well.
C22_Witness ==
    /\ Loaded
    /\ RatesOutOfRange = {4}
    /\ networkConfiguration.rates.slopeHigh = Lit(FALSE, 15, -1)
    /\ networkConfiguration.borrowMin = Lit(TRUE, 15, -1)
    /\ configuration = Failed("percentage greater than 100%")

\* A configuration returned with counts below zero and above one floored:
\* borrowMin -1.5 as -2, storeFrontPriceFactor 2.7 as 2, indexScale -0.001
\* as -1.
CountsOutsideUnitIntervalLoaded ==
    /\ Loaded
    /\ configuration.threw = "none"
    /\ networkConfiguration.borrowMin = Lit(TRUE, 15, -1)
    /\ configuration.baseBorrowMin = Signed(TRUE, <<2>>)
    /\ configuration.storeFrontPriceFactor = Signed(FALSE, <<2>>)
    /\ configuration.trackingIndexScale = Signed(TRUE, <<1>>)
    /\ Len(configuration.assetConfigs) = 1

=============================================================================
